---- MODULE Spec2Model ----
(***************************************************************************)
(* WikiDict build scripts: the publish controller of                       *)
(* scripts/build_wikidict.py (incremental refresh) and                     *)
(* scripts/build_wikidict_full.py (full build), and the two-way merge of   *)
(* update_wikidict.                                                        *)
(*                                                                         *)
(* Spec          the controller: one builder doing up to MaxRuns runs      *)
(*               against an object store whose calls succeed or raise.     *)
(* SpecDegraded  the same controller started from manifests an operator    *)
(*               or a lifecycle rule has damaged.                          *)
(* SpecFaulty    the same controller against an object store that can      *)
(*               also lose an upload or store it empty without raising.    *)
(* SpecMerge     update_wikidict, one loop iteration per step.             *)
(* SpecSort      sort_csv_external, one row read, one chunk opened or one  *)
(*               heap pop per step.                                        *)
(* SpecMismatch  the controller when update_wikidict can also end with    *)
(*               fewer index entries than rows written.                    *)
(* SpecMergeFair SpecMerge with the loop taking its next iteration.        *)
(* SpecDump      scripts/create_dump.py: the extraction into a csv with    *)
(*               checkpoints, interrupted and started again.               *)
(***************************************************************************)
EXTENDS Integers, Sequences, FiniteSets, TLC

VARIABLES
    now,          \* the wall clock, in ticks; datetime.now() reads it
    s3,           \* the bucket: object path -> content
    s3manifest,   \* the manifest.json object: {} or {manifest}
    local,        \* the builder's disk: local path -> content
    pc,           \* where the builder is
    run,          \* number of runs started
    manifest,     \* the manifest dict held by the running script
    frame,        \* the local variables of the running functions
    hist,         \* history of the current run (observation only)
    existing_rows, changelog_rows,   \* update_wikidict: the two input files
    existing_pos, changelog_pos,     \* rows each reader has handed out
    output_rows,  \* rows written to the output file
    tell,         \* output_file.tell()
    index,        \* the index dict
    counts,       \* existing/changelog/updated/added/total counters
    mpc,          \* where update_wikidict is
    input_rows,   \* sort_csv_external: the rows of the unsorted input file
    chunk_size,   \* rows per chunk
    read_pos,     \* the next input row split_and_sort_chunks reads
    chunk_data,   \* the rows of the chunk being filled
    chunk_files,  \* the sorted chunk files, in order of creation
    chunk_readers, \* per opened chunk reader, the rows it has handed out
    heap,         \* the heap of (sort_key, idx, row)
    written,      \* the popped heap entries, in the order written
    spc,          \* where sort_csv_external is
    dump_pages,   \* create_dump: the pages of the dump file, in order
    dpos,         \* the next page the loop over the dump reads
    batch,        \* the pages waiting for pool.map
    count,        \* rows written, as the script counts them
    last_title,   \* the title last put in a batch
    skipping,     \* still before the checkpoint title
    resume_after_title, \* the title the checkpoint named at startup
    checkpoint_file, \* checkpoint.json: {} or {[last_title, count]}
    csv_file,     \* the lines of the output csv, buffered ones included
    csv_flushed,  \* how many of them have left the buffer for certain
    interrupts,   \* how often the script has been interrupted
    dpc           \* where create_dump is

ctlVars == <<now, s3, s3manifest, local, pc, run, manifest, frame, hist>>
mergeVars == <<existing_rows, changelog_rows, existing_pos, changelog_pos,
               output_rows, tell, index, counts, mpc>>
sortVars == <<input_rows, chunk_size, read_pos, chunk_data, chunk_files,
              chunk_readers, heap, written, spc>>
dumpVars == <<dump_pages, dpos, batch, count, last_title, skipping,
              resume_after_title, checkpoint_file, csv_file, csv_flushed,
              interrupts, dpc>>
vars == <<ctlVars, mergeVars, sortVars, dumpVars>>

----------------------------------------------------------------------------
(* Bounds *)

MaxNow == 3
TicksPerDay == 2
MaxRuns == 2
MaxRows == 2
MaxInputRows == 3
MaxChunkSize == 3
MaxPages == 3
MaxInterrupts == 1

\* create_dump.py's BATCH_SIZE (1000) and CHECKPOINT_INTERVAL (10000), scaled
\* down: several batches between two checkpoints
BATCH_SIZE == 2
CHECKPOINT_INTERVAL == 3

----------------------------------------------------------------------------
(* Time and paths.  A path is the tuple of its "/"-separated components.   *)

\* the calendar the clock runs over, as strftime("%Y%m%d") prints it
DateNames == <<"20250101", "20250102", "20250103", "20250104", "20250105",
               "20250106">>

\* datetime.now().strftime("%Y%m%d")
strftime(t) == DateNames[(t \div TicksPerDay) + 1]

\* datetime.now().isoformat(): the clock reading itself
isoformat(t) == t

Dates == {strftime(t) : t \in 0..MaxNow}

\* "dict/" + date + "/data.csv" and "dict/" + date + "/index.json"
DataPath(d) == <<"dict", d, "data.csv">>
IndexPath(d) == <<"dict", d, "index.json">>

\* the values an operator gives changelog_file_path
ChangelogPaths == {<<"dict", "changelog.csv">>, <<"changelog", "changelog.csv">>}

S3Paths == {DataPath(d) : d \in Dates} \cup {IndexPath(d) : d \in Dates}
             \cup ChangelogPaths

\* path.replace("data.csv", "index.json")
ReplaceDataCsv(p) ==
    [i \in DOMAIN p |-> IF p[i] = "data.csv" THEN "index.json" ELSE p[i]]

\* os.path.join("data/" + s3_path)
LocalOf(p) == <<"data">> \o p

\* f"{data_dir}/data_unsorted.csv" with data_dir = f"data/dict/{date_str}"
UnsortedPath(d) == <<"data", "dict", d, "data_unsorted.csv">>

\* os.path.join(temp_dir, f'chunk_{chunk_number:04d}.csv'), temp_dir from mkdtemp
ChunkPath == <<"tmp", "csv_sort_", "chunk_0000.csv">>

LocalPaths == {LocalOf(p) : p \in S3Paths}
                \cup {UnsortedPath(d) : d \in Dates} \cup {ChunkPath}

\* a file is under data_dir = "data/dict/"
UnderDataDict(p) == Len(p) >= 2 /\ p[1] = "data" /\ p[2] = "dict"

NoPath == <<"<unset>">>

----------------------------------------------------------------------------
(* Contents.  A table is known by the build that wrote it and the sources  *)
(* merged into it; an index by the build and the table it was built from.  *)

Absent == [kind |-> "absent", build |-> 0, layers |-> {}, bytes |-> "zero"]
File(k, b, l) == [kind |-> k, build |-> b, layers |-> l, bytes |-> "full"]
Exists(c) == c.kind # "absent"

----------------------------------------------------------------------------
(* Manifests.  A field the dict does not hold has the value Missing.       *)

Missing == <<"<missing>">>
EmptyStr == <<>>
Blank == <<" ">>

\* the dict json.loads gives for "{}"
EmptyManifest ==
    [file_path |-> Missing, index_file_path |-> Missing,
     changelog_file_path |-> Missing, version |-> "<missing>",
     last_updated_at |-> -1, service_name |-> "<missing>"]

\* str.strip() of a path value
Strip(p) == IF p = Blank THEN EmptyStr ELSE p

\* `field in manifest and manifest[field]`
Truthy(v) == v # Missing /\ v # EmptyStr

\* a mistaken validity test: the dict object is there
HasValidFilePathNotNone(m) == TRUE

\* main: has_valid_file_path
HasValidFilePath(m) ==
    /\ m # EmptyManifest
    /\ Truthy(m.file_path)
    /\ Strip(m.file_path) # EmptyStr

\* build_updated_wikidict: required_fields = ['file_path', 'changelog_file_path']
RequiredFieldsPresent(m) == Truthy(m.file_path) /\ Truthy(m.changelog_file_path)

\* the table and index paths a stored manifest names
Named(ms) == UNION {{m.file_path, m.index_file_path} : m \in ms}

----------------------------------------------------------------------------
(* The controller's state *)

NoFrame ==
    [existing_file_local_path |-> NoPath, changelog_local_path |-> NoPath,
     updated_wikidict_path |-> NoPath, s3_file_path |-> NoPath,
     index_file_path |-> NoPath, date_str |-> "<unset>",
     s3_data_path |-> NoPath, s3_index_path |-> NoPath]

\* a run's history: the steps done, the step that raised, the manifest and
\* bucket when the run started, the manifest writes, what head_object saw,
\* the local files the run wrote, the uploads the store dropped silently;
\* and, over all runs, the paths stored manifests have named
NoHist(ms, bucket, pub) ==
    [trail |-> <<>>, failedAt |-> "", result |-> "",
     startManifest |-> ms, startS3 |-> bucket, manifestWrites |-> 0,
     headTable |-> Absent, headIndex |-> Absent, staged |-> {}, silent |-> {},
     published |-> pub]

Did(step) == \E i \in DOMAIN hist.trail : hist.trail[i] = step

EmptyBucket == [p \in S3Paths |-> Absent]
EmptyDisk == [p \in LocalPaths |-> Absent]

\* generation 0 as an earlier build on the first day published it, with the
\* changelog an operator has put next to it
FirstManifest(cl) ==
    [file_path |-> DataPath(DateNames[1]),
     index_file_path |-> IndexPath(DateNames[1]),
     changelog_file_path |-> cl, version |-> DateNames[1],
     last_updated_at |-> 0, service_name |-> "sm-wikidict"]

FirstBucket(cl) ==
    [p \in S3Paths |->
        IF p = DataPath(DateNames[1]) THEN File("table", 0, {"base"})
        ELSE IF p = IndexPath(DateNames[1]) THEN File("index", 0, {"base"})
        ELSE IF p = cl THEN File("changelog", 0, {"delta"})
        ELSE Absent]

MergeOff ==
    /\ existing_rows = <<>>
    /\ changelog_rows = <<>>
    /\ existing_pos = 0
    /\ changelog_pos = 0
    /\ output_rows = <<>>
    /\ tell = 0
    /\ index = <<>>
    /\ counts = [existing |-> 0, changelog |-> 0, updated |-> 0, added |-> 0,
                 total |-> 0]
    /\ mpc = "off"

SortOff ==
    /\ input_rows = <<>>
    /\ chunk_size = 0
    /\ read_pos = 0
    /\ chunk_data = <<>>
    /\ chunk_files = <<>>
    /\ chunk_readers = <<>>
    /\ heap = {}
    /\ written = <<>>
    /\ spc = "off"

\* create_dump.py is not running and has never run
DumpOff ==
    /\ dump_pages = <<>>
    /\ dpos = 0
    /\ batch = <<>>
    /\ count = 0
    /\ last_title = 0
    /\ skipping = FALSE
    /\ resume_after_title = 0
    /\ checkpoint_file = {}
    /\ csv_file = <<>>
    /\ csv_flushed = 0
    /\ interrupts = 0
    /\ dpc = "off"

CtlStart(ms, bucket) ==
    /\ now = 0
    /\ s3 = bucket
    /\ s3manifest = ms
    /\ local = EmptyDisk
    /\ pc = "idle"
    /\ run = 0
    /\ manifest = EmptyManifest
    /\ frame = NoFrame
    /\ hist = NoHist(ms, bucket, Named(ms))

\* an empty bucket, or generation 0 with a changelog waiting
Init ==
    /\ \/ CtlStart({}, EmptyBucket)
       \/ \E cl \in ChangelogPaths : CtlStart({FirstManifest(cl)}, FirstBucket(cl))
    /\ MergeOff
    /\ SortOff
    /\ DumpOff

----------------------------------------------------------------------------
(* Steps shared by the actions *)

\* the step is done; go on at `next`
Goes(step, next) ==
    /\ pc' = next
    /\ hist' = [hist EXCEPT !.trail = Append(@, step)]

\* the step raises inside the try block of the build
Raises(step) ==
    /\ pc' = "except"
    /\ hist' = [hist EXCEPT !.failedAt = step]

\* time passes between any two steps
Tick ==
    /\ now < MaxNow
    /\ now' = now + 1
    /\ UNCHANGED <<s3, s3manifest, local, pc, run, manifest, frame, hist>>
    /\ UNCHANGED <<mergeVars, sortVars, dumpVars>>

\* `python scripts/build_wikidict.py` is started
StartRun ==
    /\ pc = "idle"
    /\ run < MaxRuns
    /\ run' = run + 1
    /\ pc' = "load_manifest"
    /\ manifest' = EmptyManifest
    /\ frame' = NoFrame
    /\ hist' = NoHist(s3manifest, s3, hist.published \cup Named(s3manifest))
    /\ UNCHANGED <<now, s3, s3manifest, local>>
    /\ UNCHANGED <<mergeVars, sortVars, dumpVars>>

----------------------------------------------------------------------------
(* scripts/build_wikidict.py *)

\* a load that answers {} to every error, not to NoSuchKey alone
LoadManifestSwallowsErrors ==
    /\ pc = "load_manifest"
    /\ \/ /\ \E m \in s3manifest : manifest' = m
          /\ Goes("load_manifest", "main")
       \/ /\ s3manifest = {}
          /\ manifest' = EmptyManifest
          /\ Goes("NoSuchKey", "main")
       \/ /\ pc' = "main"
          /\ hist' = [hist EXCEPT !.failedAt = "load_manifest"]
          /\ manifest' = EmptyManifest
    /\ UNCHANGED <<now, s3, s3manifest, local, run, frame>>
    /\ UNCHANGED <<mergeVars, sortVars, dumpVars>>

\* load_manifest_from_s3: the object, {} on NoSuchKey, or the error raised
LoadManifest ==
    /\ pc = "load_manifest"
    /\ \/ /\ \E m \in s3manifest : manifest' = m
          /\ Goes("load_manifest", "main")
       \/ /\ s3manifest = {}
          /\ manifest' = EmptyManifest
          /\ Goes("NoSuchKey", "main")
       \/ /\ pc' = "done"
          /\ hist' = [hist EXCEPT !.failedAt = "load_manifest", !.result = "error"]
          /\ UNCHANGED manifest
    /\ UNCHANGED <<now, s3, s3manifest, local, run, frame>>
    /\ UNCHANGED <<mergeVars, sortVars, dumpVars>>

\* main: the incremental build on a valid file_path, else the full build
Main ==
    /\ pc = "main"
    /\ IF HasValidFilePath(manifest)
         THEN Goes("incremental", "validate")
         ELSE Goes("full_build", "full_paths")
    /\ UNCHANGED <<now, s3, s3manifest, local, run, manifest, frame>>
    /\ UNCHANGED <<mergeVars, sortVars, dumpVars>>

\* a caller that answers the ValueError with the full build
ValidateManifestFallsBack ==
    /\ pc = "validate"
    /\ IF RequiredFieldsPresent(manifest)
         THEN Goes("validate", "download_table")
         ELSE /\ pc' = "full_paths"
              /\ hist' = [hist EXCEPT !.failedAt = "validate",
                                      !.trail = Append(@, "full_build")]
    /\ UNCHANGED <<now, s3, s3manifest, local, run, manifest, frame>>
    /\ UNCHANGED <<mergeVars, sortVars, dumpVars>>

\* build_updated_wikidict: the required fields, checked before the try block;
\* the ValueError leaves main
ValidateManifest ==
    /\ pc = "validate"
    /\ IF RequiredFieldsPresent(manifest)
         THEN Goes("validate", "download_table")
         ELSE /\ pc' = "done"
              /\ hist' = [hist EXCEPT !.failedAt = "validate", !.result = "error"]
    /\ UNCHANGED <<now, s3, s3manifest, local, run, manifest, frame>>
    /\ UNCHANGED <<mergeVars, sortVars, dumpVars>>

\* one s3_client.download_file(S3_BUCKET, src, dst): the object is written to
\* dst, or the call raises (always when there is no object)
Downloads(src, dst, step, next) ==
    \/ /\ Exists(s3[src])
       /\ local' = [local EXCEPT ![dst] = s3[src]]
       /\ pc' = next
       /\ hist' = [hist EXCEPT !.trail = Append(@, step),
                               !.staged = @ \cup {dst}]
    \/ /\ Raises(step)
       /\ UNCHANGED local

\* download_file_from_s3: the table
DownloadTable ==
    /\ pc = "download_table"
    /\ Downloads(manifest.file_path, LocalOf(manifest.file_path),
                 "download_table", "download_index")
    /\ UNCHANGED <<now, s3, s3manifest, run, manifest, frame>>
    /\ UNCHANGED <<mergeVars, sortVars, dumpVars>>

\* download_file_from_s3: the index, found from the table's path
DownloadIndex ==
    /\ pc = "download_index"
    /\ Downloads(ReplaceDataCsv(manifest.file_path),
                 ReplaceDataCsv(LocalOf(manifest.file_path)),
                 "download_index", "download_changelog")
    /\ frame' = [frame EXCEPT
                   !.existing_file_local_path =
                       IF pc' = "except" THEN @ ELSE LocalOf(manifest.file_path)]
    /\ UNCHANGED <<now, s3, s3manifest, run, manifest>>
    /\ UNCHANGED <<mergeVars, sortVars, dumpVars>>

\* download_changelog_from_s3
DownloadChangelog ==
    /\ pc = "download_changelog"
    /\ Downloads(manifest.changelog_file_path,
                 LocalOf(manifest.changelog_file_path),
                 "download_changelog", "updated_path")
    /\ frame' = [frame EXCEPT
                   !.changelog_local_path =
                       IF pc' = "except" THEN @
                       ELSE LocalOf(manifest.changelog_file_path)]
    /\ UNCHANGED <<now, s3, s3manifest, run, manifest>>
    /\ UNCHANGED <<mergeVars, sortVars, dumpVars>>

\* build_updated_wikidict: updated_wikidict_path, from today's date
UpdatedPath ==
    /\ pc = "updated_path"
    /\ frame' = [frame EXCEPT
                   !.updated_wikidict_path = LocalOf(DataPath(strftime(now)))]
    /\ Goes("updated_path", "update_wikidict")
    /\ UNCHANGED <<now, s3, s3manifest, local, run, manifest>>
    /\ UNCHANGED <<mergeVars, sortVars, dumpVars>>

\* what the existing file holds once the output file has been opened with
\* 'w': nothing when both are the same file
ReadAfterOpen(existing, out) ==
    IF existing = out THEN {} ELSE local[existing].layers

\* update_wikidict: the merged table and its index are written, or the merge
\* raises with the output file opened and the index not written
UpdateWikidict ==
    /\ pc = "update_wikidict"
    /\ LET out == frame.updated_wikidict_path
           merged == ReadAfterOpen(frame.existing_file_local_path, out)
                       \cup local[frame.changelog_local_path].layers
       IN  \/ /\ local' = [local EXCEPT
                             ![out] = File("table", run, merged),
                             ![ReplaceDataCsv(out)] = File("index", run, merged)]
              /\ pc' = "upload_path"
              /\ hist' = [hist EXCEPT
                            !.trail = Append(@, "update_wikidict"),
                            !.staged = @ \cup {out, ReplaceDataCsv(out)}]
           \/ /\ local' = [local EXCEPT ![out] = File("table", run, {})]
              /\ pc' = "except"
              /\ hist' = [hist EXCEPT !.failedAt = "update_wikidict",
                                      !.staged = @ \cup {out}]
    /\ UNCHANGED <<now, s3, s3manifest, run, manifest, frame>>
    /\ UNCHANGED <<mergeVars, sortVars, dumpVars>>

\* one s3_client.upload_file(src, S3_BUCKET, dst): the object is stored whole,
\* or the call raises and stores nothing
Uploads(src, dst, step, next) ==
    \/ /\ s3' = [s3 EXCEPT ![dst] = local[src]]
       /\ Goes(step, next)
    \/ /\ Raises(step)
       /\ UNCHANGED s3

\* upload_file_to_s3: both local files exist; s3_file_path from today's date
UploadPath ==
    /\ pc = "upload_path"
    /\ LET file_path == frame.updated_wikidict_path
           index_local_path == ReplaceDataCsv(file_path)
       IN  IF Exists(local[file_path]) /\ Exists(local[index_local_path])
             THEN /\ frame' = [frame EXCEPT
                                 !.s3_file_path = DataPath(strftime(now))]
                  /\ Goes("upload_path", "upload_index_path")
             ELSE /\ Raises("upload_path")
                  /\ UNCHANGED frame
    /\ UNCHANGED <<now, s3, s3manifest, local, run, manifest>>
    /\ UNCHANGED <<mergeVars, sortVars, dumpVars>>

\* upload_file_to_s3: index_file_path from today's date, read again
UploadIndexPath ==
    /\ pc = "upload_index_path"
    /\ frame' = [frame EXCEPT !.index_file_path = IndexPath(strftime(now))]
    /\ Goes("upload_index_path", "upload_table")
    /\ UNCHANGED <<now, s3, s3manifest, local, run, manifest>>
    /\ UNCHANGED <<mergeVars, sortVars, dumpVars>>

\* upload_file_to_s3: upload data.csv
UploadTable ==
    /\ pc = "upload_table"
    /\ Uploads(frame.updated_wikidict_path, frame.s3_file_path,
               "upload_table", "upload_index")
    /\ UNCHANGED <<now, s3manifest, local, run, manifest, frame>>
    /\ UNCHANGED <<mergeVars, sortVars, dumpVars>>

\* upload_file_to_s3: upload index.json
UploadIndex ==
    /\ pc = "upload_index"
    /\ Uploads(ReplaceDataCsv(frame.updated_wikidict_path),
               frame.index_file_path, "upload_index", "head_table")
    /\ UNCHANGED <<now, s3manifest, local, run, manifest, frame>>
    /\ UNCHANGED <<mergeVars, sortVars, dumpVars>>

\* a verification that logs the failure and goes on
HeadsUnchecked(path, field, step, next) ==
    \/ /\ Exists(s3[path])
       /\ pc' = next
       /\ hist' = [hist EXCEPT !.trail = Append(@, step), ![field] = s3[path]]
    \/ /\ pc' = next
       /\ hist' = [hist EXCEPT !.failedAt = step, ![field] = s3[path]]

\* one s3_client.head_object(Bucket, Key=path) under `except ClientError:
\* raise`: passes when the object exists, whatever its size; raises otherwise.
\* hist[field] keeps what the call was given to look at.
Heads(path, field, step, next) ==
    \/ /\ Exists(s3[path])
       /\ pc' = next
       /\ hist' = [hist EXCEPT !.trail = Append(@, step), ![field] = s3[path]]
    \/ /\ pc' = "except"
       /\ hist' = [hist EXCEPT !.failedAt = step, ![field] = s3[path]]

\* upload_file_to_s3: verify data.csv
HeadTable ==
    /\ pc = "head_table"
    /\ Heads(frame.s3_file_path, "headTable", "head_table", "head_index")
    /\ UNCHANGED <<now, s3, s3manifest, local, run, manifest, frame>>
    /\ UNCHANGED <<mergeVars, sortVars, dumpVars>>

\* upload_file_to_s3: verify index.json
HeadIndex ==
    /\ pc = "head_index"
    /\ Heads(frame.index_file_path, "headIndex", "head_index", "set_file_path")
    /\ UNCHANGED <<now, s3, s3manifest, local, run, manifest, frame>>
    /\ UNCHANGED <<mergeVars, sortVars, dumpVars>>

\* an upload that also empties the manifest's changelog path
SetFilePathClearsChangelog ==
    /\ pc = "set_file_path"
    /\ manifest' = [manifest EXCEPT !.file_path = frame.s3_file_path,
                                    !.last_updated_at = isoformat(now),
                                    !.changelog_file_path = EmptyStr]
    /\ Goes("set_file_path", "set_version")
    /\ UNCHANGED <<now, s3, s3manifest, local, run, frame>>
    /\ UNCHANGED <<mergeVars, sortVars, dumpVars>>

\* upload_file_to_s3: manifest['file_path'], manifest['last_updated_at']
SetFilePath ==
    /\ pc = "set_file_path"
    /\ manifest' = [manifest EXCEPT !.file_path = frame.s3_file_path,
                                    !.last_updated_at = isoformat(now)]
    /\ Goes("set_file_path", "set_version")
    /\ UNCHANGED <<now, s3, s3manifest, local, run, frame>>
    /\ UNCHANGED <<mergeVars, sortVars, dumpVars>>

\* upload_file_to_s3: manifest['version'], manifest['index_file_path']
SetVersion ==
    /\ pc = "set_version"
    /\ manifest' = [manifest EXCEPT !.version = strftime(now),
                                    !.index_file_path = frame.index_file_path]
    /\ Goes("set_version", "update_manifest")
    /\ UNCHANGED <<now, s3, s3manifest, local, run, frame>>
    /\ UNCHANGED <<mergeVars, sortVars, dumpVars>>

\* one s3_client.put_object(Bucket, Key=MANIFEST_FILE_NAME, Body=...): the
\* object is replaced, or the call raises and the object stays
PutsManifest(step, next) ==
    \/ /\ s3manifest' = {manifest}
       /\ pc' = next
       /\ hist' = [hist EXCEPT !.trail = Append(@, step),
                               !.manifestWrites = @ + 1,
                               !.published = @ \cup Named({manifest})]
    \/ /\ Raises(step)
       /\ UNCHANGED s3manifest

\* update_manifest_in_s3, the last statement of the try block
UpdateManifest ==
    /\ pc = "update_manifest"
    /\ PutsManifest("update_manifest", "finally")
    /\ UNCHANGED <<now, s3, local, run, manifest, frame>>
    /\ UNCHANGED <<mergeVars, sortVars, dumpVars>>

\* `except Exception`: log; the incremental build raises again, the full
\* build returns 1
Except ==
    /\ pc = "except"
    /\ pc' = "finally"
    /\ hist' = [hist EXCEPT !.result = "error"]
    /\ UNCHANGED <<now, s3, s3manifest, local, run, manifest, frame>>
    /\ UNCHANGED <<mergeVars, sortVars, dumpVars>>

\* cleanup_local_files, from `finally`: every file under data/dict/ goes
CleanupLocalFiles ==
    /\ pc = "finally"
    /\ local' = [p \in LocalPaths |->
                    IF UnderDataDict(p) THEN Absent ELSE local[p]]
    /\ pc' = "done"
    /\ hist' = [hist EXCEPT !.result = IF @ = "" THEN "ok" ELSE @]
    /\ UNCHANGED <<now, s3, s3manifest, run, manifest, frame>>
    /\ UNCHANGED <<mergeVars, sortVars, dumpVars>>

\* the process exits
Exit ==
    /\ pc = "done"
    /\ pc' = "idle"
    /\ UNCHANGED <<now, s3, s3manifest, local, run, manifest, frame, hist>>
    /\ UNCHANGED <<mergeVars, sortVars, dumpVars>>

----------------------------------------------------------------------------
(* scripts/build_wikidict_full.py, run by main as a subprocess *)

\* main: date_str, and from it data_dir, unsorted_file, sorted_file, index_file
FullPaths ==
    /\ pc = "full_paths"
    /\ frame' = [frame EXCEPT !.date_str = strftime(now)]
    /\ Goes("full_paths", "generate")
    /\ UNCHANGED <<now, s3, s3manifest, local, run, manifest>>
    /\ UNCHANGED <<mergeVars, sortVars, dumpVars>>

\* sorted_file = f"{data_dir}/data.csv"
SortedFile == LocalOf(DataPath(frame.date_str))

\* index_file = f"{data_dir}/index.json"
IndexFile == LocalOf(IndexPath(frame.date_str))

\* a local write: the file is written whole, or the writer raises with the
\* file opened
Writes(path, content, step, next) ==
    \/ /\ local' = [local EXCEPT ![path] = content]
       /\ pc' = next
       /\ hist' = [hist EXCEPT !.trail = Append(@, step),
                               !.staged = @ \cup {path}]
    \/ /\ local' = [local EXCEPT ![path] = File(content.kind, run, {})]
       /\ pc' = "except"
       /\ hist' = [hist EXCEPT !.failedAt = step, !.staged = @ \cup {path}]

\* generate_unsorted_dataset
Generate ==
    /\ pc = "generate"
    /\ Writes(UnsortedPath(frame.date_str), File("unsorted", run, {"full"}),
              "generate", "split")
    /\ UNCHANGED <<now, s3, s3manifest, run, manifest, frame>>
    /\ UNCHANGED <<mergeVars, sortVars, dumpVars>>

\* sort_csv_external, phase 1: split_and_sort_chunks into temp_dir; when it
\* raises, `finally` removes temp_dir
SplitAndSortChunks ==
    /\ pc = "split"
    /\ \/ /\ local' = [local EXCEPT
                         ![ChunkPath] = File("chunk", run, {"full"})]
          /\ pc' = "merge_chunks"
          /\ hist' = [hist EXCEPT !.trail = Append(@, "split"),
                                  !.staged = @ \cup {ChunkPath}]
       \/ /\ Raises("split")
          /\ UNCHANGED local
    /\ UNCHANGED <<now, s3, s3manifest, run, manifest, frame>>
    /\ UNCHANGED <<mergeVars, sortVars, dumpVars>>

\* sort_csv_external, phase 2: merge_sorted_chunks writes sorted_file; then,
\* raised or not, `finally` removes temp_dir
MergeSortedChunks ==
    /\ pc = "merge_chunks"
    /\ \/ /\ local' = [local EXCEPT
                         ![SortedFile] = File("table", run, local[ChunkPath].layers),
                         ![ChunkPath] = Absent]
          /\ pc' = "remove_unsorted"
          /\ hist' = [hist EXCEPT !.trail = Append(@, "merge_chunks"),
                                  !.staged = @ \cup {SortedFile}]
       \/ /\ local' = [local EXCEPT ![SortedFile] = File("table", run, {}),
                                    ![ChunkPath] = Absent]
          /\ pc' = "except"
          /\ hist' = [hist EXCEPT !.failedAt = "merge_chunks",
                                  !.staged = @ \cup {SortedFile}]
    /\ UNCHANGED <<now, s3, s3manifest, run, manifest, frame>>
    /\ UNCHANGED <<mergeVars, sortVars, dumpVars>>

\* main: os.remove(unsorted_file)
RemoveUnsorted ==
    /\ pc = "remove_unsorted"
    /\ local' = [local EXCEPT ![UnsortedPath(frame.date_str)] = Absent]
    /\ Goes("remove_unsorted", "create_index")
    /\ UNCHANGED <<now, s3, s3manifest, run, manifest, frame>>
    /\ UNCHANGED <<mergeVars, sortVars, dumpVars>>

\* create_index: index_file from sorted_file
CreateIndex ==
    /\ pc = "create_index"
    /\ Writes(IndexFile, File("index", run, local[SortedFile].layers),
              "create_index", "full_upload_path")
    /\ UNCHANGED <<now, s3, s3manifest, run, manifest, frame>>
    /\ UNCHANGED <<mergeVars, sortVars, dumpVars>>

\* upload_to_s3: date_str read once, both paths from it
FullUploadPath ==
    /\ pc = "full_upload_path"
    /\ frame' = [frame EXCEPT !.s3_data_path = DataPath(strftime(now)),
                              !.s3_index_path = IndexPath(strftime(now))]
    /\ Goes("full_upload_path", "full_upload_table")
    /\ UNCHANGED <<now, s3, s3manifest, local, run, manifest>>
    /\ UNCHANGED <<mergeVars, sortVars, dumpVars>>

\* upload_to_s3: upload data.csv
FullUploadTable ==
    /\ pc = "full_upload_table"
    /\ Uploads(SortedFile, frame.s3_data_path,
               "full_upload_table", "full_upload_index")
    /\ UNCHANGED <<now, s3manifest, local, run, manifest, frame>>
    /\ UNCHANGED <<mergeVars, sortVars, dumpVars>>

\* upload_to_s3: upload index.json
FullUploadIndex ==
    /\ pc = "full_upload_index"
    /\ Uploads(IndexFile, frame.s3_index_path,
               "full_upload_index", "full_head_table")
    /\ UNCHANGED <<now, s3manifest, local, run, manifest, frame>>
    /\ UNCHANGED <<mergeVars, sortVars, dumpVars>>

\* upload_to_s3: verify data.csv
FullHeadTable ==
    /\ pc = "full_head_table"
    /\ Heads(frame.s3_data_path, "headTable", "full_head_table", "full_head_index")
    /\ UNCHANGED <<now, s3, s3manifest, local, run, manifest, frame>>
    /\ UNCHANGED <<mergeVars, sortVars, dumpVars>>

\* upload_to_s3: verify index.json
FullHeadIndex ==
    /\ pc = "full_head_index"
    /\ Heads(frame.s3_index_path, "headIndex", "full_head_index", "create_manifest")
    /\ UNCHANGED <<now, s3, s3manifest, local, run, manifest, frame>>
    /\ UNCHANGED <<mergeVars, sortVars, dumpVars>>

\* create_and_upload_manifest: the dict literal up to "last_updated_at"
CreateManifest ==
    /\ pc = "create_manifest"
    /\ manifest' = [file_path |-> frame.s3_data_path,
                    index_file_path |-> frame.s3_index_path,
                    changelog_file_path |-> EmptyStr,
                    version |-> "<missing>",
                    last_updated_at |-> isoformat(now),
                    service_name |-> "sm-wikidict"]
    /\ Goes("create_manifest", "create_manifest_version")
    /\ UNCHANGED <<now, s3, s3manifest, local, run, frame>>
    /\ UNCHANGED <<mergeVars, sortVars, dumpVars>>

\* create_and_upload_manifest: "version", the last entry of the dict literal
CreateManifestVersion ==
    /\ pc = "create_manifest_version"
    /\ manifest' = [manifest EXCEPT !.version = strftime(now)]
    /\ Goes("create_manifest_version", "upload_manifest")
    /\ UNCHANGED <<now, s3, s3manifest, local, run, frame>>
    /\ UNCHANGED <<mergeVars, sortVars, dumpVars>>

\* create_and_upload_manifest: put_object
UploadManifest ==
    /\ pc = "upload_manifest"
    /\ PutsManifest("upload_manifest", "head_manifest")
    /\ UNCHANGED <<now, s3, local, run, manifest, frame>>
    /\ UNCHANGED <<mergeVars, sortVars, dumpVars>>

\* create_and_upload_manifest: head_object on manifest.json
HeadManifest ==
    /\ pc = "head_manifest"
    /\ \/ Goes("head_manifest", "finally")
       \/ Raises("head_manifest")
    /\ UNCHANGED <<now, s3, s3manifest, local, run, manifest, frame>>
    /\ UNCHANGED <<mergeVars, sortVars, dumpVars>>

----------------------------------------------------------------------------
(* The controller *)

CtlNext ==
    \/ Tick
    \/ StartRun
    \/ LoadManifest
    \/ Main
    \/ ValidateManifest
    \/ DownloadTable
    \/ DownloadIndex
    \/ DownloadChangelog
    \/ UpdatedPath
    \/ UpdateWikidict
    \/ UploadPath
    \/ UploadIndexPath
    \/ UploadTable
    \/ UploadIndex
    \/ HeadTable
    \/ HeadIndex
    \/ SetFilePath
    \/ SetVersion
    \/ UpdateManifest
    \/ Except
    \/ CleanupLocalFiles
    \/ Exit
    \/ FullPaths
    \/ Generate
    \/ SplitAndSortChunks
    \/ MergeSortedChunks
    \/ RemoveUnsorted
    \/ CreateIndex
    \/ FullUploadPath
    \/ FullUploadTable
    \/ FullUploadIndex
    \/ FullHeadTable
    \/ FullHeadIndex
    \/ CreateManifest
    \/ CreateManifestVersion
    \/ UploadManifest
    \/ HeadManifest

Next == CtlNext

Spec == Init /\ [][Next]_vars

----------------------------------------------------------------------------
(* The controller started from a damaged generation 0: the table object    *)
(* has been deleted from the bucket, or the manifest's file_path has been  *)
(* removed, emptied or blanked.                                            *)

InitDegraded ==
    /\ \/ Init
       \/ \E cl \in ChangelogPaths :
             CtlStart({FirstManifest(cl)},
                      [FirstBucket(cl) EXCEPT ![DataPath(DateNames[1])] = Absent])
       \/ \E cl \in ChangelogPaths, fp \in {Missing, EmptyStr, Blank} :
             CtlStart({[FirstManifest(cl) EXCEPT !.file_path = fp]},
                      FirstBucket(cl))
    /\ MergeOff
    /\ SortOff
    /\ DumpOff

SpecDegraded == InitDegraded /\ [][Next]_vars

----------------------------------------------------------------------------
(* The controller against an object store that can drop an upload, or      *)
(* store it with no bytes, while upload_file returns normally.             *)

\* upload_file returns; the object is not stored ("lost") or is stored with
\* zero bytes ("empty")
SilentlyFails(src, dst, step, next) ==
    \E kind \in {"lost", "empty"} :
        /\ s3' = IF kind = "lost" THEN s3
                 ELSE [s3 EXCEPT ![dst] = [local[src] EXCEPT !.bytes = "zero"]]
        /\ pc' = next
        /\ hist' = [hist EXCEPT !.trail = Append(@, step),
                                !.silent = @ \cup {<<dst, kind>>}]

StoreFault ==
    /\ \/ /\ pc = "upload_table"
          /\ SilentlyFails(frame.updated_wikidict_path, frame.s3_file_path,
                           "upload_table", "upload_index")
       \/ /\ pc = "upload_index"
          /\ SilentlyFails(ReplaceDataCsv(frame.updated_wikidict_path),
                           frame.index_file_path, "upload_index", "head_table")
       \/ /\ pc = "full_upload_table"
          /\ SilentlyFails(SortedFile, frame.s3_data_path,
                           "full_upload_table", "full_upload_index")
       \/ /\ pc = "full_upload_index"
          /\ SilentlyFails(IndexFile, frame.s3_index_path,
                           "full_upload_index", "full_head_table")
    /\ UNCHANGED <<now, s3manifest, local, run, manifest, frame>>
    /\ UNCHANGED <<mergeVars, sortVars, dumpVars>>

NextFaulty ==
    \/ Next
    \/ StoreFault

SpecFaulty == Init /\ [][NextFaulty]_vars

----------------------------------------------------------------------------
(* Properties of the controller *)

\* step a is in the run's trail before step b
Before(a, b) ==
    \E i, j \in DOMAIN hist.trail :
        i < j /\ hist.trail[i] = a /\ hist.trail[j] = b

\* C1: in the incremental refresh and in the full build the manifest object
\* is written at most once per run, and only after the table and the index
\* of the new generation have both been uploaded and head_object has
\* succeeded on both.
C1_ManifestWrittenOnceAfterVerification ==
    /\ hist.manifestWrites <= 1
    /\ hist.manifestWrites = 0 => s3manifest = hist.startManifest
    /\ hist.manifestWrites = 1 =>
          /\ Exists(hist.headTable) /\ Exists(hist.headIndex)
          /\ \/ /\ Before("upload_table", "upload_index")
                /\ Before("upload_index", "head_table")
                /\ Before("head_table", "head_index")
                /\ Before("head_index", "update_manifest")
             \/ /\ Before("full_upload_table", "full_upload_index")
                /\ Before("full_upload_index", "full_head_table")
                /\ Before("full_head_table", "full_head_index")
                /\ Before("full_head_index", "upload_manifest")

\* C1 witness: an incremental run has written the manifest and ended.
C1_Witness ==
    /\ pc = "done"
    /\ Did("update_manifest")
    /\ hist.manifestWrites = 1
    /\ s3manifest # hist.startManifest

\* the steps of an incremental refresh that come before the manifest write
StepsBeforeManifestWrite ==
    {"download_table", "download_index", "download_changelog",
     "update_wikidict", "upload_path", "upload_table", "upload_index",
     "head_table", "head_index"}

\* C2: if an incremental refresh fails at a step before the manifest write
\* (base download, changelog download, merge, table upload, index upload or
\* verification), the stored manifest is the one stored before the attempt.
C2_FailedRefreshLeavesManifest ==
    (Did("incremental") /\ hist.failedAt \in StepsBeforeManifestWrite)
        => s3manifest = hist.startManifest

\* C2 witness: a refresh has failed at verification, after its uploads
\* changed the bucket, and has ended.
C2_Witness ==
    /\ pc = "done"
    /\ Did("incremental")
    /\ hist.failedAt = "head_index"
    /\ s3 # hist.startS3
    /\ s3manifest # {}

\* C3 (as claimed): in every reachable state the table and index locators
\* of the stored manifest name objects that both exist and form one
\* generation: the complete table and the index built from that table.
C3_ManifestNamesOneGeneration ==
    \A m \in s3manifest :
        LET t == s3[m.file_path]
            i == s3[m.index_file_path]
        IN  /\ t.kind = "table" /\ t.bytes = "full"
            /\ i.kind = "index" /\ i.bytes = "full"
            /\ t.build = i.build
            /\ t.layers = i.layers

\* C4 (as claimed): no step writes to a storage path that the current or an
\* earlier manifest named as its table or index.
C4_PublishedPathsNeverWritten ==
    [][\A p \in hist.published \cap S3Paths : s3'[p] = s3[p]]_vars

\* C5 (as claimed): a run that writes the manifest has verified that the
\* uploaded table and the uploaded index exist and have non-zero size.
C5_VerificationChecksSize ==
    hist.manifestWrites > 0 =>
        /\ Exists(hist.headTable) /\ hist.headTable.bytes # "zero"
        /\ Exists(hist.headIndex) /\ hist.headIndex.bytes # "zero"

\* C5 (amended): a run that writes the manifest has verified that the
\* uploaded table and the uploaded index exist; a run in which either is
\* missing at verification never writes the manifest.
C5_VerificationChecksExistence ==
    /\ hist.manifestWrites > 0 =>
          Exists(hist.headTable) /\ Exists(hist.headIndex)
    /\ (hist.failedAt \in {"head_table", "head_index", "full_head_table",
                            "full_head_index"})
          => hist.manifestWrites = 0

\* C5 witness: the store dropped an upload, verification found the object
\* missing, and the run ended without a manifest write.
C5_Witness ==
    /\ pc = "done"
    /\ \E e \in hist.silent : e[2] = "lost"
    /\ hist.failedAt \in {"head_table", "head_index"}
    /\ ~Exists(hist.headTable) \/ ~Exists(hist.headIndex)
    /\ hist.manifestWrites = 0

\* C6 (as claimed): when a refresh or a full build has ended, by returning
\* or by raising, none of the files it staged locally remains.
C6_NoStagedFileRemains ==
    pc = "done" => \A p \in hist.staged : ~Exists(local[p])

\* the trail of a full build that succeeds after NoSuchKey
BootstrapTrail ==
    <<"NoSuchKey", "full_build", "full_paths", "generate", "split",
      "merge_chunks", "remove_unsorted", "create_index", "full_upload_path",
      "full_upload_table", "full_upload_index", "full_head_table",
      "full_head_index", "create_manifest", "create_manifest_version",
      "upload_manifest", "head_manifest">>

\* C7: when no manifest exists in storage, main attempts no merge: it runs
\* the full build (generate, chunk sort, k-way merge, index, upload, verify)
\* and on success a manifest exists that references the table and index
\* this run built and uploaded.
C7_BootstrapRunsFullBuild ==
    Did("NoSuchKey") =>
        /\ hist.startManifest = {}
        /\ ~Did("incremental")
        /\ pc # "main" => Did("full_build")
        /\ (pc = "done" /\ hist.result = "ok") =>
              /\ hist.trail = BootstrapTrail
              /\ \E m \in s3manifest :
                    /\ s3manifest = {m}
                    /\ m.file_path = frame.s3_data_path
                    /\ m.index_file_path = frame.s3_index_path
                    /\ s3[m.file_path] = File("table", run, {"full"})
                    /\ s3[m.index_file_path] = File("index", run, {"full"})

\* C7 witness: a run that found no manifest has ended in success.
C7_Witness ==
    /\ pc = "done"
    /\ hist.result = "ok"
    /\ hist.startManifest = {}
    /\ Did("NoSuchKey")
    /\ s3manifest # {}

\* C8 (as claimed): an incremental build attempted on a manifest with a
\* required field missing or empty is answered by the full build.
C8_ValueErrorFallsBackToFullBuild ==
    hist.failedAt = "validate" => Did("full_build")

\* C8 (amended): an incremental build attempted on a manifest with a
\* required field missing or empty fails without any storage write and the
\* run ends with that error; the full build is not started.
C8_ValueErrorEndsRun ==
    hist.failedAt = "validate" =>
        /\ pc \in {"done", "idle"}
        /\ hist.result = "error"
        /\ ~Did("full_build")
        /\ s3 = hist.startS3
        /\ s3manifest = hist.startManifest
        /\ hist.staged = {}

\* C8 witness: the run after a bootstrap build, on the manifest that build
\* wrote (changelog_file_path empty), has ended with the ValueError.
C8_Witness ==
    /\ pc = "done"
    /\ hist.failedAt = "validate"
    /\ \E m \in hist.startManifest :
          /\ m.changelog_file_path = EmptyStr
          /\ s3[m.file_path].layers = {"full"}

\* C9 (as claimed): when the object named by the manifest's file_path does
\* not exist in storage, the run does the full rebuild instead of the
\* incremental update.
C9_MissingTableTriggersFullBuild ==
    (/\ pc = "done"
     /\ Did("load_manifest")
     /\ \E m \in hist.startManifest :
           IF HasValidFilePath(m) THEN ~Exists(hist.startS3[m.file_path])
           ELSE FALSE)
        => Did("full_build")

----------------------------------------------------------------------------
(* update_wikidict.  A title or value is the tuple of its character codes; *)
(* a row is [title, value].                                                *)

\* the rows a file is made of: titles "a", "A", "B", "c"; values "x", "yy"
RowSpace ==
    {[title |-> <<97>>, value |-> <<120>>],
     [title |-> <<97>>, value |-> <<121, 121>>],
     [title |-> <<65>>, value |-> <<120>>],
     [title |-> <<65>>, value |-> <<121, 121>>],
     [title |-> <<66>>, value |-> <<120>>],
     [title |-> <<99>>, value |-> <<121, 121>>]}

\* all files of at most MaxRows rows
Files == UNION {[1..k -> RowSpace] : k \in 0..MaxRows}

\* str.lower() on ASCII
LowerChar(c) == IF c \in 65..90 THEN c + 32 ELSE c
lower(str) == [i \in DOMAIN str |-> LowerChar(str[i])]

\* str < str: by code point, a proper prefix first
StrLess(a, b) ==
    \E i \in 1..Len(b) :
        /\ \A j \in 1..(i - 1) : j <= Len(a) /\ a[j] = b[j]
        /\ \/ i = Len(a) + 1
           \/ i <= Len(a) /\ a[i] < b[i]

\* the header row and the line terminator csv.DictWriter writes
HeaderRow == <<116, 105, 116, 108, 101, 44, 118, 97, 108, 117, 101>>
LineTerminator == <<13, 10>>

\* bytes of writer.writeheader()
HeaderBytes == Len(HeaderRow) + Len(LineTerminator)

\* bytes of writer.writerow(row): title, comma, value, line terminator
RowBytes(row) == Len(row.title) + 1 + Len(row.value) + Len(LineTerminator)

\* existing_row / changelog_row: next(reader, None)
None == [title |-> <<>>, value |-> <<>>]
existing_row ==
    IF existing_pos <= Len(existing_rows) THEN existing_rows[existing_pos] ELSE None
changelog_row ==
    IF changelog_pos <= Len(changelog_rows) THEN changelog_rows[changelog_pos] ELSE None

\* index[title] = {...}: a dict assignment
DictSet(d, k, v) == [x \in DOMAIN d \cup {k} |-> IF x = k THEN v ELSE d[x]]

\* writer.writerow(row) between two output_file.tell(), and the index entry
WritesRow(row) ==
    /\ output_rows' = Append(output_rows, row)
    /\ tell' = tell + RowBytes(row)
    /\ index' = DictSet(index, row.title,
                        [offset |-> tell, length |-> RowBytes(row)])

\* the state when the loop is entered: both files opened, the header
\* written, the first row of each file read, the counters zero
InitMerge ==
    /\ CtlStart({}, EmptyBucket)
    /\ existing_rows \in Files
    /\ changelog_rows \in Files
    /\ existing_pos = 1
    /\ changelog_pos = 1
    /\ output_rows = <<>>
    /\ tell = HeaderBytes
    /\ index = <<>>
    /\ counts = [existing |-> 0, changelog |-> 0, updated |-> 0, added |-> 0,
                 total |-> 0]
    /\ mpc = "loop"
    /\ SortOff
    /\ DumpOff

\* `if existing_row is None`: only changelog left
OnlyChangelogLeft ==
    /\ mpc = "loop"
    /\ existing_row = None /\ changelog_row # None
    /\ WritesRow(changelog_row)
    /\ counts' = [counts EXCEPT !.added = @ + 1, !.total = @ + 1,
                                !.changelog = @ + 1]
    /\ changelog_pos' = changelog_pos + 1
    /\ UNCHANGED <<existing_rows, changelog_rows, existing_pos, mpc>>
    /\ UNCHANGED <<ctlVars, sortVars, dumpVars>>

\* `elif changelog_row is None`: only existing left
OnlyExistingLeft ==
    /\ mpc = "loop"
    /\ existing_row # None /\ changelog_row = None
    /\ WritesRow(existing_row)
    /\ counts' = [counts EXCEPT !.total = @ + 1, !.existing = @ + 1]
    /\ existing_pos' = existing_pos + 1
    /\ UNCHANGED <<existing_rows, changelog_rows, changelog_pos, mpc>>
    /\ UNCHANGED <<ctlVars, sortVars, dumpVars>>

\* a comparison of the titles as stored, not lower-cased
ExistingFirstRaw ==
    /\ mpc = "loop"
    /\ existing_row # None /\ changelog_row # None
    /\ StrLess(existing_row.title, changelog_row.title)
    /\ WritesRow(existing_row)
    /\ counts' = [counts EXCEPT !.total = @ + 1, !.existing = @ + 1]
    /\ existing_pos' = existing_pos + 1
    /\ UNCHANGED <<existing_rows, changelog_rows, changelog_pos, mpc>>
    /\ UNCHANGED <<ctlVars, sortVars, dumpVars>>

\* a branch that writes the existing row and forgets to read the next one
ExistingFirstDoesNotAdvance ==
    /\ mpc = "loop"
    /\ existing_row # None /\ changelog_row # None
    /\ StrLess(lower(existing_row.title), lower(changelog_row.title))
    /\ WritesRow(existing_row)
    /\ counts' = [counts EXCEPT !.total = @ + 1, !.existing = @ + 1]
    /\ UNCHANGED <<existing_rows, changelog_rows, existing_pos, changelog_pos,
                   mpc>>
    /\ UNCHANGED <<ctlVars, sortVars, dumpVars>>

\* `if existing_title_lower < changelog_title_lower`
ExistingFirst ==
    /\ mpc = "loop"
    /\ existing_row # None /\ changelog_row # None
    /\ StrLess(lower(existing_row.title), lower(changelog_row.title))
    /\ WritesRow(existing_row)
    /\ counts' = [counts EXCEPT !.total = @ + 1, !.existing = @ + 1]
    /\ existing_pos' = existing_pos + 1
    /\ UNCHANGED <<existing_rows, changelog_rows, changelog_pos, mpc>>
    /\ UNCHANGED <<ctlVars, sortVars, dumpVars>>

\* a new entry counted as an update
ChangelogFirstCountsUpdate ==
    /\ mpc = "loop"
    /\ existing_row # None /\ changelog_row # None
    /\ StrLess(lower(changelog_row.title), lower(existing_row.title))
    /\ WritesRow(changelog_row)
    /\ counts' = [counts EXCEPT !.updated = @ + 1, !.total = @ + 1,
                                !.changelog = @ + 1]
    /\ changelog_pos' = changelog_pos + 1
    /\ UNCHANGED <<existing_rows, changelog_rows, existing_pos, mpc>>
    /\ UNCHANGED <<ctlVars, sortVars, dumpVars>>

\* `elif existing_title_lower > changelog_title_lower`: a new entry
ChangelogFirst ==
    /\ mpc = "loop"
    /\ existing_row # None /\ changelog_row # None
    /\ StrLess(lower(changelog_row.title), lower(existing_row.title))
    /\ WritesRow(changelog_row)
    /\ counts' = [counts EXCEPT !.added = @ + 1, !.total = @ + 1,
                                !.changelog = @ + 1]
    /\ changelog_pos' = changelog_pos + 1
    /\ UNCHANGED <<existing_rows, changelog_rows, existing_pos, mpc>>
    /\ UNCHANGED <<ctlVars, sortVars, dumpVars>>

\* a merge that keeps the existing row on equal titles
SameTitleKeepsExisting ==
    /\ mpc = "loop"
    /\ existing_row # None /\ changelog_row # None
    /\ lower(existing_row.title) = lower(changelog_row.title)
    /\ WritesRow(existing_row)
    /\ counts' = [counts EXCEPT !.updated = @ + 1, !.total = @ + 1,
                                !.existing = @ + 1, !.changelog = @ + 1]
    /\ existing_pos' = existing_pos + 1
    /\ changelog_pos' = changelog_pos + 1
    /\ UNCHANGED <<existing_rows, changelog_rows, mpc>>
    /\ UNCHANGED <<ctlVars, sortVars, dumpVars>>

\* `else`: same title, the changelog row is written
SameTitle ==
    /\ mpc = "loop"
    /\ existing_row # None /\ changelog_row # None
    /\ ~StrLess(lower(existing_row.title), lower(changelog_row.title))
    /\ ~StrLess(lower(changelog_row.title), lower(existing_row.title))
    /\ WritesRow(changelog_row)
    /\ counts' = [counts EXCEPT !.updated = @ + 1, !.total = @ + 1,
                                !.existing = @ + 1, !.changelog = @ + 1]
    /\ existing_pos' = existing_pos + 1
    /\ changelog_pos' = changelog_pos + 1
    /\ UNCHANGED <<existing_rows, changelog_rows, mpc>>
    /\ UNCHANGED <<ctlVars, sortVars, dumpVars>>

\* a loop that ends as soon as either file is exhausted
WriteIndexStopsEarly ==
    /\ mpc = "loop"
    /\ existing_row = None \/ changelog_row = None
    /\ mpc' = "done"
    /\ UNCHANGED <<existing_rows, changelog_rows, existing_pos, changelog_pos,
                   output_rows, tell, index, counts>>
    /\ UNCHANGED <<ctlVars, sortVars, dumpVars>>

\* the loop ends with both rows None; the index file is written and its
\* size compared with total_count (a mismatch is logged, nothing more)
WriteIndex ==
    /\ mpc = "loop"
    /\ existing_row = None /\ changelog_row = None
    /\ mpc' = "done"
    /\ UNCHANGED <<existing_rows, changelog_rows, existing_pos, changelog_pos,
                   output_rows, tell, index, counts>>
    /\ UNCHANGED <<ctlVars, sortVars, dumpVars>>

NextMerge ==
    \/ OnlyChangelogLeft
    \/ OnlyExistingLeft
    \/ ExistingFirst
    \/ ChangelogFirst
    \/ SameTitle
    \/ WriteIndex

SpecMerge == InitMerge /\ [][NextMerge]_vars
\* the loop is one sequential `while True` of one thread: as long as one of
\* its branches can run, the next iteration does run
SpecMergeFair == InitMerge /\ [][NextMerge]_vars /\ WF_vars(NextMerge)


----------------------------------------------------------------------------
(* Properties of update_wikidict *)

\* a file is strictly ascending by case-folded title
Ascending(rows) ==
    \A i \in 1..(Len(rows) - 1) :
        StrLess(lower(rows[i].title), lower(rows[i + 1].title))

FoldedKeys(rows) == {lower(rows[i].title) : i \in DOMAIN rows}
RowsOf(rows) == {rows[i] : i \in DOMAIN rows}

\* the upsert of delta into base, as a set of rows
Upsert(base, delta) ==
    RowsOf(delta) \cup
        {r \in RowsOf(base) : lower(r.title) \notin FoldedKeys(delta)}

\* C10: for base and delta each ascending and duplicate-free by case-folded
\* key, update_wikidict emits exactly the upsert of delta into base: one row
\* per case-folded key of either, delta's row where delta has the key and
\* base's row otherwise, in ascending order.
C10_MergeIsUpsert ==
    (mpc = "done" /\ Ascending(existing_rows) /\ Ascending(changelog_rows)) =>
        /\ RowsOf(output_rows) = Upsert(existing_rows, changelog_rows)
        /\ Len(output_rows) =
              Cardinality(FoldedKeys(existing_rows) \cup FoldedKeys(changelog_rows))
        /\ FoldedKeys(output_rows) =
              FoldedKeys(existing_rows) \cup FoldedKeys(changelog_rows)
        /\ Ascending(output_rows)

\* C10 witness: a merge of ascending files has ended after an update whose
\* titles differ in case and values differ, an insertion and a base-only row.
C10_Witness ==
    /\ mpc = "done"
    /\ Ascending(existing_rows) /\ Ascending(changelog_rows)
    /\ counts.updated >= 1 /\ counts.added >= 1
    /\ counts.existing > counts.updated
    /\ \E i \in DOMAIN existing_rows, j \in DOMAIN changelog_rows :
          /\ lower(existing_rows[i].title) = lower(changelog_rows[j].title)
          /\ existing_rows[i].title # changelog_rows[j].title
          /\ existing_rows[i].value # changelog_rows[j].value

\* no two rows of a file have the same case-folded title
DuplicateFree(rows) ==
    \A i, j \in DOMAIN rows :
        i # j => lower(rows[i].title) # lower(rows[j].title)

\* C11: for base and delta each ascending and duplicate-free by case-folded
\* key, the rows update_wikidict has written are, after every row written
\* and when it ends, strictly ascending by case-folded key, no two of them
\* with the same case-folded key.
C11_OutputStrictlyAscending ==
    (Ascending(existing_rows) /\ Ascending(changelog_rows)
        /\ DuplicateFree(existing_rows) /\ DuplicateFree(changelog_rows)) =>
        /\ Ascending(output_rows)
        /\ DuplicateFree(output_rows)

\* C11 witness: a merge of ascending files has ended with three rows or
\* more, rows of both files among them, an upper-case title between
\* lower-case ones.
C11_Witness ==
    /\ mpc = "done"
    /\ Ascending(existing_rows) /\ Ascending(changelog_rows)
    /\ Len(output_rows) >= 3
    /\ counts.added >= 1 /\ counts.existing > counts.updated
    /\ \E i \in 2..(Len(output_rows) - 1) :
          /\ output_rows[i].title # lower(output_rows[i].title)
          /\ output_rows[i - 1].title = lower(output_rows[i - 1].title)
          /\ output_rows[i + 1].title = lower(output_rows[i + 1].title)

\* the delta has no new key and no changed record: each of its rows has a
\* base row of the same case-folded title and the same value
NoNewNoChanged(base, delta) ==
    \A j \in DOMAIN delta : \E i \in DOMAIN base :
        /\ lower(base[i].title) = lower(delta[j].title)
        /\ base[i].value = delta[j].value

\* the title update_wikidict stores for a base row: the delta's spelling
\* where the delta has the case-folded key, the base's otherwise
StoredTitle(row, delta) ==
    IF \E j \in DOMAIN delta : lower(delta[j].title) = lower(row.title)
    THEN (CHOOSE t \in {delta[j].title : j \in DOMAIN delta} :
              lower(t) = lower(row.title))
    ELSE row.title

C13_DisjointKeysAddUp ==
    (mpc = "done"
        /\ FoldedKeys(existing_rows) \cap FoldedKeys(changelog_rows) = {}) =>
        /\ Len(output_rows) = Len(existing_rows) + Len(changelog_rows)
        /\ counts.total = Len(existing_rows) + Len(changelog_rows)

\* C13 witness: a merge of an ascending two-row base and a one-row delta
\* without a common case-folded key has ended, the delta's row written
\* between the base's.
C13_Witness ==
    /\ mpc = "done"
    /\ Ascending(existing_rows) /\ Ascending(changelog_rows)
    /\ Len(existing_rows) = 2 /\ Len(changelog_rows) = 1
    /\ FoldedKeys(existing_rows) \cap FoldedKeys(changelog_rows) = {}
    /\ output_rows = <<existing_rows[1], changelog_rows[1], existing_rows[2]>>

BaseOnlyKeys == FoldedKeys(existing_rows) \ FoldedKeys(changelog_rows)
DeltaOnlyKeys == FoldedKeys(changelog_rows) \ FoldedKeys(existing_rows)
CommonKeys == FoldedKeys(existing_rows) \cap FoldedKeys(changelog_rows)

\* C15 as claimed: when the merge of ascending files ends, the counter of
\* base records (existing_count) is the number of keys in base but not in
\* delta, added_count the number of keys in delta but not in base and
\* updated_count the number of keys in both.
C15_CountersBaseOnlyInsertedUpdated ==
    (mpc = "done" /\ Ascending(existing_rows) /\ Ascending(changelog_rows)) =>
        /\ counts.existing = Cardinality(BaseOnlyKeys)
        /\ counts.added = Cardinality(DeltaOnlyKeys)
        /\ counts.updated = Cardinality(CommonKeys)

\* C15 amended: when the merge of ascending files ends, updated_count is
\* the number of keys in both and added_count the number of keys in delta
\* only; existing_count is the number of all base records read, updated
\* ones included, changelog_count the number of all delta records read and
\* total_count the number of records written; the number of keys in base
\* only is existing_count - updated_count.
C15_CountersOfTheLoop ==
    (mpc = "done" /\ Ascending(existing_rows) /\ Ascending(changelog_rows)) =>
        /\ counts.updated = Cardinality(CommonKeys)
        /\ counts.added = Cardinality(DeltaOnlyKeys)
        /\ counts.existing = Len(existing_rows)
        /\ counts.changelog = Len(changelog_rows)
        /\ counts.total = Len(output_rows)
        /\ counts.existing - counts.updated = Cardinality(BaseOnlyKeys)

\* C15 witness: the merge of a two-row base with a two-row delta has ended,
\* the base's second key being the delta's first (as base [apple, banana],
\* delta [banana, cherry]): one update, one insertion, two base records
\* read.
C15_Witness ==
    /\ mpc = "done"
    /\ Ascending(existing_rows) /\ Ascending(changelog_rows)
    /\ Len(existing_rows) = 2 /\ Len(changelog_rows) = 2
    /\ lower(existing_rows[2].title) = lower(changelog_rows[1].title)
    /\ counts = [existing |-> 2, changelog |-> 2, updated |-> 1, added |-> 1,
                 total |-> 3]

----------------------------------------------------------------------------
(* sort_csv_external: split_and_sort_chunks, then merge_sorted_chunks.     *)
(* Chunks are numbered from 0, as enumerate(chunk_files) numbers them.     *)

\* the files generate_unsorted_dataset writes: at most MaxInputRows rows, no
\* title written twice (`if title in seen_titles: continue`)
InputFiles ==
    {f \in UNION {[1..k -> RowSpace] : k \in 0..MaxInputRows} :
        \A i, j \in DOMAIN f : i # j => f[i].title # f[j].title}

\* a chunk written in the order its rows were read
sortKeepsOrder(data) == data

\* a sort that puts a row before the earlier rows of the same key
RECURSIVE sortTiesReversed(_)
sortTiesReversed(data) ==
    IF data = <<>> THEN <<>>
    ELSE LET front == sortTiesReversed(SubSeq(data, 1, Len(data) - 1))
             row == data[Len(data)]
             n == Cardinality({i \in DOMAIN front :
                     StrLess(lower(front[i].title), lower(row.title))})
         IN SubSeq(front, 1, n) \o <<row>> \o SubSeq(front, n + 1, Len(front))

\* data.sort(key=lambda row: row['title'].lower()): a stable sort, each row
\* placed behind the rows before it whose key is not greater
RECURSIVE sort(_)
sort(data) ==
    IF data = <<>> THEN <<>>
    ELSE LET front == sort(SubSeq(data, 1, Len(data) - 1))
             row == data[Len(data)]
             n == Cardinality({i \in DOMAIN front :
                     ~StrLess(lower(row.title), lower(front[i].title))})
         IN SubSeq(front, 1, n) \o <<row>> \o SubSeq(front, n + 1, Len(front))

\* the heap entry (sort_key, idx, row) of a row read from chunk idx
HeapEntry(row, idx) == [sort_key |-> lower(row.title), idx |-> idx, row |-> row]

\* a tuple order that puts the higher chunk first on equal keys
HeapLessHigherChunkFirst(e1, e2) ==
    \/ StrLess(e1.sort_key, e2.sort_key)
    \/ e1.sort_key = e2.sort_key /\ e1.idx > e2.idx

\* (sort_key, idx, row) < (sort_key, idx, row): the tuple order heapq uses;
\* no two entries of the heap have the same idx, so rows are never compared
HeapLess(e1, e2) ==
    \/ StrLess(e1.sort_key, e2.sort_key)
    \/ e1.sort_key = e2.sort_key /\ e1.idx < e2.idx

\* heapq.heappop(heap): the least entry
heappop == CHOOSE e \in heap : \A o \in heap \ {e} : HeapLess(e, o)

\* the rows of the output file: writer.writerow(row) of every popped entry
outfile_rows == [i \in DOMAIN written |-> written[i].row]

\* sort_csv_external is entered: the input file opened, nothing read
InitSort ==
    /\ CtlStart({}, EmptyBucket)
    /\ MergeOff
    /\ DumpOff
    /\ input_rows \in InputFiles
    /\ chunk_size \in 1..MaxChunkSize
    /\ read_pos = 1
    /\ chunk_data = <<>>
    /\ chunk_files = <<>>
    /\ chunk_readers = <<>>
    /\ heap = {}
    /\ written = <<>>
    /\ spc = "split"

\* a split that writes the chunk only when it holds more than chunk_size
ReadRowOverfills ==
    /\ spc = "split"
    /\ read_pos <= Len(input_rows)
    /\ LET data == Append(chunk_data, input_rows[read_pos])
       IN IF Len(data) > chunk_size
          THEN /\ chunk_files' = Append(chunk_files, sort(data))
               /\ chunk_data' = <<>>
          ELSE /\ chunk_data' = data
               /\ UNCHANGED chunk_files
    /\ read_pos' = read_pos + 1
    /\ UNCHANGED <<input_rows, chunk_size, chunk_readers, heap, written, spc>>
    /\ UNCHANGED <<ctlVars, mergeVars, dumpVars>>

\* `for row in reader`: the row is appended; a full chunk is sorted and
\* written
ReadRow ==
    /\ spc = "split"
    /\ read_pos <= Len(input_rows)
    /\ LET data == Append(chunk_data, input_rows[read_pos])
       IN IF Len(data) >= chunk_size
          THEN /\ chunk_files' = Append(chunk_files, sort(data))
               /\ chunk_data' = <<>>
          ELSE /\ chunk_data' = data
               /\ UNCHANGED chunk_files
    /\ read_pos' = read_pos + 1
    /\ UNCHANGED <<input_rows, chunk_size, chunk_readers, heap, written, spc>>
    /\ UNCHANGED <<ctlVars, mergeVars, dumpVars>>

\* a split that returns without writing the rows left over
WriteRemainingDropsRows ==
    /\ spc = "split"
    /\ read_pos > Len(input_rows)
    /\ chunk_data' = <<>>
    /\ spc' = "open"
    /\ UNCHANGED <<input_rows, chunk_size, read_pos, chunk_files,
                   chunk_readers, heap, written>>
    /\ UNCHANGED <<ctlVars, mergeVars, dumpVars>>

\* the input is exhausted: `if chunk_data` writes the rows left over as the
\* last chunk; split_and_sort_chunks returns
WriteRemaining ==
    /\ spc = "split"
    /\ read_pos > Len(input_rows)
    /\ chunk_files' = IF chunk_data # <<>>
                      THEN Append(chunk_files, sort(chunk_data))
                      ELSE chunk_files
    /\ chunk_data' = <<>>
    /\ spc' = "open"
    /\ UNCHANGED <<input_rows, chunk_size, read_pos, chunk_readers, heap,
                   written>>
    /\ UNCHANGED <<ctlVars, mergeVars, dumpVars>>

\* `for idx, chunk_file in enumerate(chunk_files)`: the chunk is opened and
\* its first row pushed
OpenChunk ==
    /\ spc = "open"
    /\ Len(chunk_readers) < Len(chunk_files)
    /\ LET idx == Len(chunk_readers)
           file == chunk_files[idx + 1]
       IN IF file # <<>>
          THEN /\ heap' = heap \cup {HeapEntry(file[1], idx)}
               /\ chunk_readers' = Append(chunk_readers, 1)
          ELSE /\ chunk_readers' = Append(chunk_readers, 0)
               /\ UNCHANGED heap
    /\ UNCHANGED <<input_rows, chunk_size, read_pos, chunk_data, chunk_files,
                   written, spc>>
    /\ UNCHANGED <<ctlVars, mergeVars, dumpVars>>

\* every chunk is opened: the output file is opened, the header written
WriteHeader ==
    /\ spc = "open"
    /\ Len(chunk_readers) = Len(chunk_files)
    /\ spc' = "merge"
    /\ UNCHANGED <<input_rows, chunk_size, read_pos, chunk_data, chunk_files,
                   chunk_readers, heap, written>>
    /\ UNCHANGED <<ctlVars, mergeVars, dumpVars>>

\* a merge that does not push the next row of the chunk it popped from
PopAndWriteNoRefill ==
    /\ spc = "merge"
    /\ heap # {}
    /\ written' = Append(written, heappop)
    /\ heap' = heap \ {heappop}
    /\ UNCHANGED <<input_rows, chunk_size, read_pos, chunk_data, chunk_files,
                   chunk_readers, spc>>
    /\ UNCHANGED <<ctlVars, mergeVars, dumpVars>>

\* `while heap`: the least entry is popped, its row written, the next row
\* of the same chunk pushed
PopAndWrite ==
    /\ spc = "merge"
    /\ heap # {}
    /\ LET e == heappop
           file == chunk_files[e.idx + 1]
           n == chunk_readers[e.idx + 1]
       IN /\ written' = Append(written, e)
          /\ IF n < Len(file)
             THEN /\ heap' = (heap \ {e}) \cup {HeapEntry(file[n + 1], e.idx)}
                  /\ chunk_readers' = [chunk_readers EXCEPT ![e.idx + 1] = n + 1]
             ELSE /\ heap' = heap \ {e}
                  /\ UNCHANGED chunk_readers
    /\ UNCHANGED <<input_rows, chunk_size, read_pos, chunk_data, chunk_files,
                   spc>>
    /\ UNCHANGED <<ctlVars, mergeVars, dumpVars>>

\* the heap is empty: the output file and the readers are closed, the
\* temporary directory removed
CloseReaders ==
    /\ spc = "merge"
    /\ heap = {}
    /\ spc' = "done"
    /\ UNCHANGED <<input_rows, chunk_size, read_pos, chunk_data, chunk_files,
                   chunk_readers, heap, written>>
    /\ UNCHANGED <<ctlVars, mergeVars, dumpVars>>

NextSort ==
    \/ ReadRow
    \/ WriteRemaining
    \/ OpenChunk
    \/ WriteHeader
    \/ PopAndWrite
    \/ CloseReaders

SpecSort == InitSort /\ [][NextSort]_vars

----------------------------------------------------------------------------
(* Properties of sort_csv_external *)

\* a file is ascending by case-folded title, equal keys allowed
NonDescending(rows) ==
    \A i \in 1..(Len(rows) - 1) :
        ~StrLess(lower(rows[i + 1].title), lower(rows[i].title))

\* C16 as claimed: for every input and every chunk_size >= 1, inputs with
\* two records of the same case-folded key included, the output of
\* sort_csv_external is strictly ascending by case-folded key.
C16_SortedOutputStrictlyAscending ==
    spc = "done" => Ascending(outfile_rows)

\* C16 amended: the rows written are at every step, and at the end,
\* ascending by case-folded key with equal keys allowed; the output is
\* strictly ascending when no two input records have the same case-folded
\* key.
C16_SortedOutputNonDescending ==
    /\ NonDescending(outfile_rows)
    /\ (spc = "done" /\ DuplicateFree(input_rows)) => Ascending(outfile_rows)

\* C16 witness: a sort has ended whose input of three rows, not in order
\* and two of them with the same case-folded key, went through two chunks.
C16_Witness ==
    /\ spc = "done"
    /\ Len(input_rows) = 3
    /\ ~NonDescending(input_rows)
    /\ ~DuplicateFree(input_rows)
    /\ Len(chunk_files) = 2
    /\ Len(outfile_rows) = 3

\* the chunks that hold a row of case-folded key k
Holders(k) ==
    {c \in 0..(Len(chunk_files) - 1) :
        \E i \in DOMAIN chunk_files[c + 1] :
            lower(chunk_files[c + 1][i].title) = k}

\* the positions of the output whose row has case-folded key k
Emitted(k) == {i \in DOMAIN written : written[i].sort_key = k}

\* C17 as claimed: when two chunks hold records of the same case-folded
\* key, the merged output has exactly one record of that key, the one of
\* the chunk with the higher number.
C17_TieKeepsHigherChunkOnly ==
    spc = "done" =>
        \A k \in FoldedKeys(input_rows) :
            Cardinality(Holders(k)) >= 2 =>
                /\ Cardinality(Emitted(k)) = 1
                /\ \A i \in Emitted(k), c \in Holders(k) : written[i].idx >= c

\* C17 amended: when two chunks hold records of the same case-folded key,
\* the merged output has every one of these records, next to each other,
\* in ascending order of chunk number; chunk 0 = [(A, x)] and chunk 1 =
\* [(a, yy)] give the two records (A, x), (a, yy).
C17_TieKeepsBothLowerChunkFirst ==
    spc = "done" =>
        /\ \A k \in FoldedKeys(input_rows) :
              /\ Cardinality(Emitted(k)) =
                    Cardinality({i \in DOMAIN input_rows :
                                    lower(input_rows[i].title) = k})
              /\ {written[i].idx : i \in Emitted(k)} = Holders(k)
        /\ \A i, j \in DOMAIN written :
              (i < j /\ written[i].sort_key = written[j].sort_key)
                  => /\ written[i].idx <= written[j].idx
                     /\ \A m \in i..j : written[m].sort_key = written[i].sort_key
        /\ chunk_files = <<
                <<[title |-> <<65>>, value |-> <<120>>]>>,
                <<[title |-> <<97>>, value |-> <<121, 121>>]>> >>
              => outfile_rows = <<[title |-> <<65>>, value |-> <<120>>],
                                  [title |-> <<97>>, value |-> <<121, 121>>]>>

\* C17 witness: the merge of chunk 0 = [(A, x)] and chunk 1 = [(a, yy)] has
\* ended, the two heads having been in the heap together.
C17_Witness ==
    /\ spc = "done"
    /\ chunk_files = <<
            <<[title |-> <<65>>, value |-> <<120>>]>>,
            <<[title |-> <<97>>, value |-> <<121, 121>>]>> >>
    /\ Len(written) = 2
    /\ written[1].idx = 0 /\ written[2].idx = 1

\* the number of rows of a file with case-folded key k
CountKey(rows, k) ==
    Cardinality({i \in DOMAIN rows : lower(rows[i].title) = k})

\* the number of positions of a file that hold the row r
CountRow(rows, r) == Cardinality({i \in DOMAIN rows : rows[i] = r})

\* C18 as claimed: the multiset of keys of the output is the multiset of
\* keys of the input minus the records a tie between chunks drops (all but
\* one of the chunks holding the key lose their record).
C18_KeysConservedButTies ==
    spc = "done" =>
        \A k \in FoldedKeys(input_rows) :
            CountKey(outfile_rows, k) =
                CountKey(input_rows, k) - (Cardinality(Holders(k)) - 1)

\* C18 amended: the multiset of records of the output is the multiset of
\* records of the input: no record is lost, ties between chunks included,
\* none is emitted twice and none is emitted that was not in the input.
C18_RecordsConserved ==
    spc = "done" =>
        /\ Len(outfile_rows) = Len(input_rows)
        /\ \A r \in RowSpace :
              CountRow(outfile_rows, r) = CountRow(input_rows, r)
        /\ \A k \in FoldedKeys(input_rows) \cup FoldedKeys(outfile_rows) :
              CountKey(outfile_rows, k) = CountKey(input_rows, k)

\* C18 witness: a sort of three rows has ended that went through a full
\* chunk and a chunk of the row left over, two chunks holding the same
\* case-folded key.
C18_Witness ==
    /\ spc = "done"
    /\ Len(input_rows) = 3 /\ chunk_size = 2
    /\ Len(chunk_files) = 2 /\ Len(chunk_files[2]) = 1
    /\ \E k \in FoldedKeys(input_rows) : Cardinality(Holders(k)) = 2
    /\ Len(outfile_rows) = 3

----------------------------------------------------------------------------
(* The index against the bytes of the table *)

\* the bytes writer.writerow(row) writes: title, comma, value, terminator
Encode(row) == row.title \o <<44>> \o row.value \o LineTerminator

\* the bytes of a table file: the header line, then the rows
RECURSIVE FileBytes(_)
FileBytes(rows) ==
    IF rows = <<>> THEN HeaderRow \o LineTerminator
    ELSE FileBytes(SubSeq(rows, 1, Len(rows) - 1)) \o Encode(rows[Len(rows)])

\* the bytes in the range an index entry addresses
BytesAt(bytes, entry) ==
    IF entry.offset + entry.length <= Len(bytes)
    THEN SubSeq(bytes, entry.offset + 1, entry.offset + entry.length)
    ELSE <<>>

\* a table the full build can have published: ascending by case-folded
\* title with equal keys allowed, no title text twice
FullBuildTable(rows) ==
    /\ NonDescending(rows)
    /\ \A i, j \in DOMAIN rows : i # j => rows[i].title # rows[j].title

\* C19: for a base the full build can have published and an ascending,
\* duplicate-free delta, every title of the table update_wikidict emits has
\* exactly one index entry, the index has no other entry, it has as many
\* entries as the table has records, and each record's entry addresses
\* exactly the bytes of that record.
C19_IndexCompleteAndExact ==
    (mpc = "done" /\ FullBuildTable(existing_rows)
        /\ Ascending(changelog_rows)) =>
        /\ DOMAIN index = {output_rows[i].title : i \in DOMAIN output_rows}
        /\ Cardinality(DOMAIN index) = Len(output_rows)
        /\ \A i \in DOMAIN output_rows :
              BytesAt(FileBytes(output_rows), index[output_rows[i].title])
                  = Encode(output_rows[i])

\* C20: for the same inputs, the byte ranges of the index do not overlap
\* and tile the table: one starts at the header length, each other starts
\* where another ends, each ends where another starts or at the size of
\* the table, and each spans the bytes of one record.
C20_IndexRangesTileTable ==
    (mpc = "done" /\ FullBuildTable(existing_rows)
        /\ Ascending(changelog_rows) /\ output_rows # <<>>) =>
        /\ \E t \in DOMAIN index : index[t].offset = HeaderBytes
        /\ \A t \in DOMAIN index :
              /\ \/ index[t].offset = HeaderBytes
                 \/ \E u \in DOMAIN index :
                       index[u].offset + index[u].length = index[t].offset
              /\ \/ index[t].offset + index[t].length
                       = Len(FileBytes(output_rows))
                 \/ \E u \in DOMAIN index :
                       index[t].offset + index[t].length = index[u].offset
              /\ \E i \in DOMAIN output_rows :
                    BytesAt(FileBytes(output_rows), index[t])
                        = Encode(output_rows[i])
        /\ \A t, u \in DOMAIN index :
              t # u => \/ index[t].offset + index[t].length <= index[u].offset
                       \/ index[u].offset + index[u].length <= index[t].offset

----------------------------------------------------------------------------
(* The controller when the merge ends with fewer index entries than rows.  *)
(* SpecMerge reaches that end (two written rows of the same title text,    *)
(* one index entry); here it is the third outcome of update_wikidict.      *)

\* update_wikidict with len(index) != total_count: the table and the index
\* are written, "Index size mismatch!" is logged, the function returns
UpdateWikidictIndexMismatch ==
    /\ pc = "update_wikidict"
    /\ LET out == frame.updated_wikidict_path
           merged == ReadAfterOpen(frame.existing_file_local_path, out)
                       \cup local[frame.changelog_local_path].layers
       IN  /\ local' = [local EXCEPT
                          ![out] = File("table", run, merged),
                          ![ReplaceDataCsv(out)] = File("index", run, merged)]
           /\ pc' = "upload_path"
           /\ hist' = [hist EXCEPT
                         !.trail = Append(Append(@, "update_wikidict"),
                                          "index_mismatch"),
                         !.staged = @ \cup {out, ReplaceDataCsv(out)}]
    /\ UNCHANGED <<now, s3, s3manifest, run, manifest, frame>>
    /\ UNCHANGED <<mergeVars, sortVars, dumpVars>>

NextMismatch ==
    \/ Next
    \/ UpdateWikidictIndexMismatch

SpecMismatch == Init /\ [][NextMismatch]_vars

\* C21: a run whose merge ended with a number of index entries different
\* from the number of records written uploads neither the table nor the
\* index and does not write the manifest.
C21_IndexMismatchStopsPublish ==
    Did("index_mismatch") =>
        /\ ~Did("upload_table")
        /\ ~Did("upload_index")
        /\ hist.manifestWrites = 0

----------------------------------------------------------------------------
(* Properties of the published manifest *)

\* version tokens are dates as YYYYMMDD: a < b as strings
VersionLess(a, b) ==
    \E i, j \in DOMAIN DateNames :
        i < j /\ DateNames[i] = a /\ DateNames[j] = b

\* C22: a run that has written the manifest has stored a version greater
\* than the version of the manifest it found, and a table path and an
\* index path different from the ones that manifest named.
C22_PublishAdvancesVersionAndLocators ==
    hist.manifestWrites >= 1 =>
        \A old \in hist.startManifest, new \in s3manifest :
            /\ VersionLess(old.version, new.version)
            /\ new.file_path # old.file_path
            /\ new.index_file_path # old.index_file_path

\* C23 as claimed: the manifest a run has written, after a full build or
\* after an incremental refresh that merged the manifest's changelog, has
\* an empty changelog_file_path.
C23_PublishedChangelogPathEmpty ==
    hist.manifestWrites >= 1 =>
        \A m \in s3manifest : m.changelog_file_path = EmptyStr

\* C23 amended: the manifest written by a full build has an empty
\* changelog_file_path; the manifest written by an incremental refresh has
\* the changelog_file_path of the manifest the run loaded, the path of the
\* changelog it has just merged.
C23_ChangelogPathEmptyAfterFullBuildOnly ==
    hist.manifestWrites >= 1 =>
        \A m \in s3manifest :
            /\ Did("full_build") => m.changelog_file_path = EmptyStr
            /\ Did("incremental") =>
                  /\ m.changelog_file_path \in ChangelogPaths
                  /\ \A old \in hist.startManifest :
                        m.changelog_file_path = old.changelog_file_path

\* C23 witness: an incremental refresh has merged the changelog, written
\* the manifest and ended.
C23_Witness ==
    /\ pc = "idle"
    /\ hist.manifestWrites = 1
    /\ Did("incremental") /\ Did("update_wikidict") /\ Did("update_manifest")
    /\ hist.failedAt = ""
    /\ \E m \in s3manifest : m.changelog_file_path \in ChangelogPaths

----------------------------------------------------------------------------
(* Properties of the chunks and of the heap *)

\* ceil(n / c)
CeilDiv(n, c) == (n + c - 1) \div c

\* the input rows chunk i (from 0) is made of: i*c .. i*c+c-1, from 0
Run(i) ==
    SubSeq(input_rows, i * chunk_size + 1,
           IF (i + 1) * chunk_size <= Len(input_rows)
           THEN (i + 1) * chunk_size ELSE Len(input_rows))

\* C24: once split_and_sort_chunks has returned, an input of n rows has
\* given ceil(n / chunk_size) chunks; every chunk but the last holds
\* chunk_size rows and the last between 1 and chunk_size; chunk i holds the
\* input rows i*c .. i*c+c-1 in ascending order of case-folded key; and the
\* idx of every heap entry is the creation index of the chunk its row is
\* read from.
C24_ChunksAreConsecutiveRuns ==
    spc \in {"open", "merge", "done"} =>
        /\ Len(chunk_files) = CeilDiv(Len(input_rows), chunk_size)
        /\ \A i \in 0..(Len(chunk_files) - 1) :
              LET chunk == chunk_files[i + 1]
              IN /\ i < Len(chunk_files) - 1 => Len(chunk) = chunk_size
                 /\ Len(chunk) >= 1 /\ Len(chunk) <= chunk_size
                 /\ Len(chunk) = Len(Run(i))
                 /\ \A r \in RowSpace : CountRow(chunk, r) = CountRow(Run(i), r)
                 /\ NonDescending(chunk)
        /\ \A e \in heap \cup {written[i] : i \in DOMAIN written} :
              /\ e.idx \in 0..(Len(chunk_files) - 1)
              /\ \E k \in DOMAIN chunk_files[e.idx + 1] :
                    chunk_files[e.idx + 1][k] = e.row

\* C24 witness: three rows, not in order, have been split with chunk_size
\* 2 into a full chunk and a last chunk of one row, and merged.
C24_Witness ==
    /\ spc = "done"
    /\ Len(input_rows) = 3 /\ chunk_size = 2
    /\ Len(chunk_files) = 2
    /\ Len(chunk_files[1]) = 2 /\ Len(chunk_files[2]) = 1
    /\ chunk_files[1] # Run(0)

\* where a row is in the input (titles are written once)
InputPos(row) == CHOOSE i \in DOMAIN input_rows : input_rows[i] = row

\* C25: two rows of the same chunk with the same case-folded key are in
\* the chunk in the order they were read from the input.
C25_ChunkSortIsStable ==
    \A c \in DOMAIN chunk_files :
        \A i, j \in DOMAIN chunk_files[c] :
            (i < j /\ lower(chunk_files[c][i].title)
                          = lower(chunk_files[c][j].title))
                => InputPos(chunk_files[c][i]) < InputPos(chunk_files[c][j])

\* C25 witness: a chunk of three rows holds two rows of the same
\* case-folded key that were read before or after a row the sort has moved.
C25_Witness ==
    \E c \in DOMAIN chunk_files :
        /\ Len(chunk_files[c]) = 3
        /\ \E i \in 1..2 : lower(chunk_files[c][i].title)
                               = lower(chunk_files[c][i + 1].title)
        /\ chunk_files[c] # Run(c - 1)

\* the number of rows of chunk idx already written to the output
WrittenFrom(idx) ==
    Cardinality({i \in DOMAIN written : written[i].idx = idx})

\* C26: at every step of the merge loop the heap holds, for each chunk with
\* rows not yet written, exactly one entry, the first such row of the chunk
\* (its smallest, the chunk being sorted), and no entry for a chunk whose
\* rows are all written; it never holds more entries than there are chunks.
C26_HeapHoldsOneHeadPerOpenChunk ==
    spc = "merge" =>
        /\ Cardinality(heap) <= Len(chunk_files)
        /\ \A idx \in 0..(Len(chunk_files) - 1) :
              LET file == chunk_files[idx + 1]
                  n == WrittenFrom(idx)
                  entries == {e \in heap : e.idx = idx}
              IN IF n < Len(file)
                 THEN /\ entries = {HeapEntry(file[n + 1], idx)}
                      /\ \A k \in (n + 1)..Len(file) :
                            ~StrLess(lower(file[k].title), lower(file[n + 1].title))
                 ELSE entries = {}

\* C26 witness: in the middle of a merge one chunk is exhausted and the
\* heap holds a row of another chunk that is not that chunk's first.
C26_Witness ==
    /\ spc = "merge"
    /\ Len(chunk_files) >= 2
    /\ \E idx \in 0..(Len(chunk_files) - 1) :
          WrittenFrom(idx) = Len(chunk_files[idx + 1])
    /\ \E e \in heap :
          /\ WrittenFrom(e.idx) >= 1
          /\ e.row = chunk_files[e.idx + 1][WrittenFrom(e.idx) + 1]

\* C27: the merge of no chunk writes no row, and the merge of one chunk
\* writes the rows of that chunk, unchanged and in the chunk's order.
C27_ZeroAndOneChunk ==
    spc = "done" =>
        /\ Len(chunk_files) = 0 => outfile_rows = <<>>
        /\ Len(chunk_files) = 1 => outfile_rows = chunk_files[1]

\* C27 witness: the merge of a single chunk of three rows has ended.
C27_Witness ==
    /\ spc = "done"
    /\ Len(chunk_files) = 1
    /\ Len(chunk_files[1]) = 3
    /\ Len(outfile_rows) = 3

\* C28: for every chunk_size, two input rows with the same case-folded key
\* are in the merged output in the order they have in the input.
C28_ExternalSortIsStable ==
    spc = "done" =>
        \A i, j \in DOMAIN outfile_rows :
            (i < j /\ lower(outfile_rows[i].title)
                          = lower(outfile_rows[j].title))
                => InputPos(outfile_rows[i]) < InputPos(outfile_rows[j])

\* C28 witness: a sort has ended whose input held two rows of the same
\* case-folded key in different chunks, a row of another key read between
\* them.
C28_Witness ==
    /\ spc = "done"
    /\ Len(input_rows) = 3
    /\ lower(input_rows[1].title) = lower(input_rows[3].title)
    /\ Len(chunk_files) >= 2
    /\ Len(outfile_rows) = 3

----------------------------------------------------------------------------
(* Properties of the files of an incremental refresh *)

C30_LocatorsInOneDirectory ==
    hist.manifestWrites >= 1 =>
        \A m \in s3manifest : m.index_file_path = ReplaceDataCsv(m.file_path)

----------------------------------------------------------------------------
(* Properties of the loop of update_wikidict *)

\* the counters agree with one another and with the rows written
CountersAgree ==
    /\ counts.total = Len(output_rows)
    /\ counts.total = counts.existing + counts.changelog - counts.updated
    /\ counts.added + counts.updated = counts.changelog

\* no counter is smaller after a step than before it
CountersGrow ==
    /\ counts'.existing >= counts.existing
    /\ counts'.changelog >= counts.changelog
    /\ counts'.updated >= counts.updated
    /\ counts'.added >= counts.added
    /\ counts'.total >= counts.total

\* C31: before the loop and at the end of every iteration, for every pair of
\* input files, total_count is the number of records written and equals
\* existing_count + changelog_count - updated_count, added_count +
\* updated_count equals changelog_count; and no iteration decreases a
\* counter.
C31_CountersAgreeAndGrow ==
    [](CountersAgree) /\ [][CountersGrow]_vars

\* C31 witness: a merge has ended after an iteration of each kind: a base
\* row copied, a row inserted, a row updated.
C31_Witness ==
    /\ mpc = "done"
    /\ counts.updated >= 1 /\ counts.added >= 1
    /\ counts.existing > counts.updated
    /\ counts.total = 3
    /\ CountersAgree

\* an iteration of the loop: a step that leaves the loop running
LoopIteration ==
    mpc = "loop" /\ mpc' = "loop"

\* the iteration writes exactly one record and reads on in at least one of
\* the two input files, and moves back in neither
WritesOneAndAdvances ==
    /\ Len(output_rows') = Len(output_rows) + 1
    /\ existing_pos' >= existing_pos /\ changelog_pos' >= changelog_pos
    /\ existing_pos' > existing_pos \/ changelog_pos' > changelog_pos

\* C32: for every pair of input files, the loop of update_wikidict ends, with
\* both files exhausted; every iteration writes exactly one record and
\* advances at least one input pointer; there are never more iterations
\* (one record each) than rows in the two files together.
C32_LoopTerminates ==
    /\ <>(mpc = "done" /\ existing_row = None /\ changelog_row = None)
    /\ [][LoopIteration => WritesOneAndAdvances]_vars
    /\ [](Len(output_rows) <= Len(existing_rows) + Len(changelog_rows))

\* C32 witness: the loop has ended after as many iterations as the two files
\* have rows together, two rows each: no iteration found one title in both.
C32_Witness ==
    /\ mpc = "done"
    /\ Len(existing_rows) = 2 /\ Len(changelog_rows) = 2
    /\ existing_pos = 3 /\ changelog_pos = 3
    /\ Len(output_rows) = 4

\* the titles of the table written
OutputTitles == {output_rows[k].title : k \in DOMAIN output_rows}

----------------------------------------------------------------------------
(* Properties of main and the manifest of build_wikidict.py *)

C35_PublishWritesFourFields ==
    (hist.manifestWrites >= 1 /\ Did("incremental")) =>
        \A old \in hist.startManifest, new \in s3manifest :
            /\ new.changelog_file_path = old.changelog_file_path
            /\ new.service_name = old.service_name
            /\ new = [old EXCEPT !.file_path = new.file_path,
                                 !.index_file_path = new.index_file_path,
                                 !.version = new.version,
                                 !.last_updated_at = new.last_updated_at]
            /\ new.file_path = frame.s3_file_path
            /\ new.index_file_path = frame.index_file_path
            /\ new.version \in {DateNames[i] : i \in DOMAIN DateNames}
            /\ new.last_updated_at >= old.last_updated_at

\* C35 witness: an incremental refresh on a later day has written the
\* manifest and ended; each of the four fields differs from the loaded one.
C35_Witness ==
    /\ pc = "idle"
    /\ hist.manifestWrites = 1 /\ Did("incremental") /\ hist.failedAt = ""
    /\ \E old \in hist.startManifest, new \in s3manifest :
          /\ new.file_path # old.file_path
          /\ new.index_file_path # old.index_file_path
          /\ new.version # old.version
          /\ new.last_updated_at # old.last_updated_at
          /\ new.changelog_file_path = old.changelog_file_path

----------------------------------------------------------------------------
(* scripts/create_dump.py.  A page is its kind; its title is its place in  *)
(* the dump, titles being unique in a dump; 0 stands for None and for the  *)
(* header line of the csv.                                                 *)

\* "article": cleaned text of MIN_TEXT_LENGTH or more, a row is written;
\* "small": put in a batch, process_page returns None;
\* "skipped": never put in a batch (another namespace, no text, a redirect,
\* larger than MAX_RAW_TEXT_LENGTH)
PageKinds == {"article", "small", "skipped"}

\* all dumps of at most MaxPages pages
Dumps == UNION {[1..k -> PageKinds] : k \in 0..MaxPages}

\* the state before the first start: no checkpoint, no output file
InitDump ==
    /\ CtlStart({}, EmptyBucket)
    /\ MergeOff
    /\ SortOff
    /\ dump_pages \in Dumps
    /\ dpos = 0
    /\ batch = <<>>
    /\ count = 0
    /\ last_title = 0
    /\ skipping = FALSE
    /\ resume_after_title = 0
    /\ checkpoint_file = {}
    /\ csv_file = <<>>
    /\ csv_flushed = 0
    /\ interrupts = 0
    /\ dpc = "start"

\* load_checkpoint: (last_title, count) of the file, or (None, 0)
load_checkpoint ==
    IF checkpoint_file # {}
    THEN CHOOSE c \in checkpoint_file : TRUE
    ELSE [last_title |-> 0, count |-> 0]

\* csv_file.flush() and save_checkpoint(title, n)
FlushAndSaveCheckpoint(title, n) ==
    /\ csv_flushed' = Len(csv_file)
    /\ checkpoint_file' = {[last_title |-> title, count |-> n]}

\* pool.map(process_page, batch): the titles whose result is not None
Results(b) == SelectSeq(b, LAMBDA p : dump_pages[p] = "article")

\* main up to the loop: the checkpoint is loaded; the csv is opened for
\* appending when it names a title, else truncated and given its header
DumpStart ==
    /\ dpc = "start"
    /\ resume_after_title' = load_checkpoint.last_title
    /\ count' = load_checkpoint.count
    /\ skipping' = (load_checkpoint.last_title # 0)
    /\ batch' = <<>>
    /\ last_title' = 0
    /\ IF load_checkpoint.last_title # 0
         THEN /\ csv_file' = csv_file
              /\ csv_flushed' = Len(csv_file)
         ELSE /\ csv_file' = <<0>>
              /\ csv_flushed' = 0
    /\ dpos' = 1
    /\ dpc' = "scan"
    /\ UNCHANGED <<dump_pages, checkpoint_file, interrupts>>
    /\ UNCHANGED <<ctlVars, mergeVars, sortVars>>

\* `for page in dump`, up to batch.append and last_title = title
ScanPage ==
    /\ dpc = "scan"
    /\ dpos <= Len(dump_pages)
    /\ dpos' = dpos + 1
    /\ IF dump_pages[dpos] = "skipped"
         THEN UNCHANGED <<batch, last_title, skipping, dpc>>
         ELSE IF skipping
         THEN /\ skipping' = (dpos # resume_after_title)
              /\ UNCHANGED <<batch, last_title, dpc>>
         ELSE /\ batch' = Append(batch, dpos)
              /\ last_title' = dpos
              /\ dpc' = IF Len(batch') >= BATCH_SIZE THEN "batch" ELSE "scan"
              /\ UNCHANGED skipping
    /\ UNCHANGED <<dump_pages, count, resume_after_title, checkpoint_file,
                   csv_file, csv_flushed, interrupts>>
    /\ UNCHANGED <<ctlVars, mergeVars, sortVars>>

\* `if len(batch) >= BATCH_SIZE`: the results are written and counted
ProcessBatch ==
    /\ dpc = "batch"
    /\ csv_file' = csv_file \o Results(batch)
    /\ count' = count + Len(Results(batch))
    /\ batch' = <<>>
    /\ dpc' = IF count' % CHECKPOINT_INTERVAL < BATCH_SIZE
                THEN "checkpoint" ELSE "scan"
    /\ UNCHANGED <<dump_pages, dpos, last_title, skipping, resume_after_title,
                   checkpoint_file, csv_flushed, interrupts>>
    /\ UNCHANGED <<ctlVars, mergeVars, sortVars>>

\* `if count % CHECKPOINT_INTERVAL < BATCH_SIZE`: flush, save_checkpoint
SaveCheckpoint ==
    /\ dpc = "checkpoint"
    /\ FlushAndSaveCheckpoint(last_title, count)
    /\ dpc' = "scan"
    /\ UNCHANGED <<dump_pages, dpos, batch, count, last_title, skipping,
                   resume_after_title, csv_file, interrupts>>
    /\ UNCHANGED <<ctlVars, mergeVars, sortVars>>

\* the dump is read to its end: `if batch`, the remaining pages
FinalBatch ==
    /\ dpc = "scan"
    /\ dpos > Len(dump_pages)
    /\ csv_file' = csv_file \o Results(batch)
    /\ count' = count + Len(Results(batch))
    /\ batch' = <<>>
    /\ dpc' = "final"
    /\ UNCHANGED <<dump_pages, dpos, last_title, skipping, resume_after_title,
                   checkpoint_file, csv_flushed, interrupts>>
    /\ UNCHANGED <<ctlVars, mergeVars, sortVars>>

\* `if last_title`: the final checkpoint; the with block closes the csv
FinalCheckpoint ==
    /\ dpc = "final"
    /\ IF last_title # 0
         THEN FlushAndSaveCheckpoint(last_title, count)
         ELSE /\ csv_flushed' = Len(csv_file)
              /\ UNCHANGED checkpoint_file
    /\ dpc' = "done"
    /\ UNCHANGED <<dump_pages, dpos, batch, count, last_title, skipping,
                   resume_after_title, csv_file, interrupts>>
    /\ UNCHANGED <<ctlVars, mergeVars, sortVars>>

\* the script is interrupted inside the with block and started again later.
\* An exception or a signal handled by Python closes the csv on the way
\* out, writing every buffered line; a killed process leaves the lines that
\* had left the buffer: all the flushed ones and any number of later ones.
Interrupt ==
    /\ dpc \in {"scan", "batch", "checkpoint", "final"}
    /\ interrupts < MaxInterrupts
    /\ interrupts' = interrupts + 1
    /\ \E k \in csv_flushed..Len(csv_file) :
          /\ csv_file' = SubSeq(csv_file, 1, k)
          /\ csv_flushed' = k
    /\ dpos' = 0
    /\ batch' = <<>>
    /\ count' = 0
    /\ last_title' = 0
    /\ skipping' = FALSE
    /\ resume_after_title' = 0
    /\ dpc' = "start"
    /\ UNCHANGED <<dump_pages, checkpoint_file>>
    /\ UNCHANGED <<ctlVars, mergeVars, sortVars>>

NextDump ==
    \/ DumpStart
    \/ ScanPage
    \/ ProcessBatch
    \/ SaveCheckpoint
    \/ FinalBatch
    \/ FinalCheckpoint
    \/ Interrupt

SpecDump == InitDump /\ [][NextDump]_vars

----------------------------------------------------------------------------
(* Properties of create_dump.py *)

\* the rows of the csv: its lines without the header
CsvRows == SelectSeq(csv_file, LAMBDA x : x # 0)

\* the rows of pages up to and including title t
CsvRowsUpTo(t) == SelectSeq(csv_file, LAMBDA x : x # 0 /\ x <= t)

\* the pages up to and including title t for which a row is due, in order
RECURSIVE ArticlesUpTo(_)
ArticlesUpTo(t) ==
    IF t = 0 THEN <<>>
    ELSE IF dump_pages[t] = "article" THEN Append(ArticlesUpTo(t - 1), t)
    ELSE ArticlesUpTo(t - 1)

\* C36: the checkpoint on disk is consistent with the csv: the rows of the
\* pages up to and including its last_title are the rows due for those
\* pages, once each, and they are count rows, and when the script has ended
\* the csv has count rows in all; no page has two rows in the csv, through
\* interruption and restart; and when the script has ended the csv has a
\* row for every page due one.
C36_CheckpointConsistentNoPageTwice ==
    /\ \A c \in checkpoint_file :
          /\ CsvRowsUpTo(c.last_title) = ArticlesUpTo(c.last_title)
          /\ Len(CsvRowsUpTo(c.last_title)) = c.count
          /\ dpc = "done" => Len(CsvRows) = c.count
    /\ \A i, j \in DOMAIN CsvRows : i # j => CsvRows[i] # CsvRows[j]
    /\ dpc = "done" => CsvRows = ArticlesUpTo(Len(dump_pages))

====
